---- MODULE Spec2Model ----
(***************************************************************************)
(* Model of the upgrade module of nano-ui (src/src/generators/upgrade.ts): *)
(* the CSS token scanner, the generic-pattern matcher and scorer, the      *)
(* migration mapper and the project analyzer.                              *)
(*                                                                         *)
(* Strings are sequences of one-character strings, so that the regular     *)
(* expressions, toLowerCase, includes and trim of the source are computed  *)
(* character by character.  A JavaScript object used as a mapping is a     *)
(* sequence of <<key, value>> pairs in property enumeration order.         *)
(***************************************************************************)
EXTENDS Integers, Sequences, FiniteSets, TLC

\* ------------------------------------------------------------------------
\* Characters and strings
\* ------------------------------------------------------------------------

UpperChars == <<"A","B","C","D","E","F","G","H","I","J","K","L","M","N","O","P","Q","R","S","T","U","V","W","X","Y","Z">>
LowerChars == <<"a","b","c","d","e","f","g","h","i","j","k","l","m","n","o","p","q","r","s","t","u","v","w","x","y","z">>
DigitChars == {"0","1","2","3","4","5","6","7","8","9"}
\* [0-9a-fA-F]
HexDigitChars == DigitChars \cup {"a","b","c","d","e","f","A","B","C","D","E","F"}
\* [A-Za-z]
AlphaChars == {UpperChars[i] : i \in DOMAIN UpperChars} \cup {LowerChars[i] : i \in DOMAIN LowerChars}
\* \s
SpaceChars == {" ", "\t", "\n"}
\* [\w-]
WordDashChars == AlphaChars \cup DigitChars \cup {"_", "-"}
\* \w
WordChars == AlphaChars \cup DigitChars \cup {"_"}
\* [A-Za-z\s]
AlphaSpaceChars == AlphaChars \cup SpaceChars
\* ["']
QuoteChars == {"\"", "'"}

Min(a, b) == IF a < b THEN a ELSE b

\* the least element of a non-empty set of numbers
MinOf(S) == CHOOSE x \in S : \A y \in S : x <= y

Max(a, b) == IF a > b THEN a ELSE b

\* String.prototype.toLowerCase, one character
LowerChar(c) ==
  IF \E i \in DOMAIN UpperChars : UpperChars[i] = c
  THEN LowerChars[CHOOSE i \in DOMAIN UpperChars : UpperChars[i] = c]
  ELSE c

\* String.prototype.toLowerCase
toLowerCase(s) == [i \in DOMAIN s |-> LowerChar(s[i])]

\* whether sub occurs in s at position i (1-based)
OccursAt(s, sub, i) ==
  /\ i >= 1
  /\ i + Len(sub) - 1 <= Len(s)
  /\ \A k \in 1..Len(sub) : s[i + k - 1] = sub[k]

\* String.prototype.includes
includes(s, sub) == \E i \in 1..(Len(s) + 1) : OccursAt(s, sub, i)

\* String.prototype.indexOf, 1-based; 0 when absent (JavaScript: -1)
indexOf(s, sub) ==
  IF includes(s, sub)
  THEN CHOOSE i \in 1..(Len(s) + 1) :
         OccursAt(s, sub, i) /\ \A j \in 1..(i - 1) : ~OccursAt(s, sub, j)
  ELSE 0

\* String.prototype.endsWith
endsWith(s, suffix) == OccursAt(s, suffix, Len(s) - Len(suffix) + 1)

\* String.prototype.startsWith
startsWith(s, prefix) == OccursAt(s, prefix, 1)

\* Array.prototype.includes
arrayIncludes(arr, x) == \E i \in DOMAIN arr : arr[i] = x

\* number of characters of class cls in s from position i on, without a gap
RECURSIVE RunLen(_, _, _)
RunLen(s, i, cls) ==
  IF i > Len(s) \/ s[i] \notin cls THEN 0 ELSE 1 + RunLen(s, i + 1, cls)

\* String.prototype.trim
trim(s) ==
  IF \A i \in DOMAIN s : s[i] \in SpaceChars THEN <<>>
  ELSE LET a == CHOOSE i \in DOMAIN s :
                  s[i] \notin SpaceChars /\ \A j \in 1..(i - 1) : s[j] \in SpaceChars
           b == CHOOSE i \in DOMAIN s :
                  s[i] \notin SpaceChars /\ \A j \in (i + 1)..Len(s) : s[j] \in SpaceChars
       IN SubSeq(s, a, b)

\* f.replace(/["']/g, '')
RemoveQuotes(s) == SelectSeq(s, LAMBDA c : c \notin QuoteChars)

\* Array.prototype.join(', ')
RECURSIVE joinComma(_)
joinComma(arr) ==
  IF arr = <<>> THEN <<>>
  ELSE IF Len(arr) = 1 THEN arr[1]
  ELSE arr[1] \o <<",", " ">> \o joinComma(Tail(arr))

\* the decimal digits of a non-negative integer (String(n))
RECURSIVE numToString(_)
numToString(n) ==
  LET d == <<"0","1","2","3","4","5","6","7","8","9">>[(n % 10) + 1]
  IN IF n < 10 THEN <<d>> ELSE numToString(n \div 10) \o <<d>>

\* ------------------------------------------------------------------------
\* JavaScript objects used as mappings (Record<string, string>)
\* ------------------------------------------------------------------------

DigitValue(c) == CHOOSE n \in 0..9 : <<"0","1","2","3","4","5","6","7","8","9">>[n + 1] = c

\* a < b for canonical decimal strings (no leading zero), as numbers
NumLess(a, b) ==
  \/ Len(a) < Len(b)
  \/ /\ Len(a) = Len(b)
     /\ \E i \in DOMAIN a :
          /\ DigitValue(a[i]) < DigitValue(b[i])
          /\ \A j \in 1..(i - 1) : a[j] = b[j]

\* a property key that is a canonical array index (an integer below 2^32 - 1):
\* such keys are enumerated first, in ascending numeric order, before the
\* other keys, which are enumerated in insertion order
IsArrayIndex(k) ==
  /\ Len(k) >= 1
  /\ \A i \in DOMAIN k : k[i] \in DigitChars
  /\ (k[1] = "0" => Len(k) = 1)
  /\ NumLess(k, <<"4","2","9","4","9","6","7","2","9","5">>)

ObjKeys(o) == [i \in DOMAIN o |-> o[i][1]]
ObjValues(o) == [i \in DOMAIN o |-> o[i][2]]
ObjHas(o, k) == \E i \in DOMAIN o : o[i][1] = k
ObjGet(o, k) == o[CHOOSE i \in DOMAIN o : o[i][1] = k][2]

\* o[k] = v
ObjPut(o, k, v) ==
  IF ObjHas(o, k)
  THEN [i \in DOMAIN o |-> IF o[i][1] = k THEN <<k, v>> ELSE o[i]]
  ELSE IF IsArrayIndex(k)
  THEN LET before == SelectSeq(o, LAMBDA e : IsArrayIndex(e[1]) /\ NumLess(e[1], k))
           after  == SelectSeq(o, LAMBDA e : ~(IsArrayIndex(e[1]) /\ NumLess(e[1], k)))
       IN before \o << <<k, v>> >> \o after
  ELSE Append(o, <<k, v>>)

\* delete o[k]
ObjDelete(o, k) == SelectSeq(o, LAMBDA e : e[1] # k)

\* Object.assign(o, src)
RECURSIVE ObjAssign(_, _)
ObjAssign(o, src) ==
  IF src = <<>> THEN o ELSE ObjAssign(ObjPut(o, src[1][1], src[1][2]), Tail(src))

\* ------------------------------------------------------------------------
\* Reference lists
\* ------------------------------------------------------------------------

GENERIC_COLORS == <<
  <<"#","3","b","8","2","f","6">>, <<"#","2","5","6","3","e","b">>, <<"#","1","d","4","e","d","8">>, <<"#","6","0","a","5","f","a">>, <<"#","9","3","c","5","f","d">>,
  <<"#","6","3","6","6","f","1">>, <<"#","4","f","4","6","e","5">>, <<"#","4","3","3","8","c","a">>, <<"#","8","1","8","c","f","8">>, <<"#","a","5","b","4","f","c">>,
  <<"#","8","b","5","c","f","6">>, <<"#","7","c","3","a","e","d">>, <<"#","6","d","2","8","d","9">>, <<"#","a","7","8","b","f","a">>, <<"#","c","4","b","5","f","d">>,
  <<"#","6","4","7","4","8","b">>, <<"#","4","7","5","5","6","9">>, <<"#","3","3","4","1","5","5">>, <<"#","9","4","a","3","b","8">>, <<"#","c","b","d","5","e","1">>,
  <<"#","6","6","7","e","e","a">>, <<"#","7","6","4","b","a","2">>, <<"#","6","b","8","d","d","6">>, <<"#","8","e","3","7","d","7">> >>

GENERIC_FONTS == <<
  <<"I","n","t","e","r">>, <<"s","y","s","t","e","m","-","u","i">>, <<"u","i","-","s","a","n","s","-","s","e","r","i","f">>, <<"S","e","g","o","e"," ","U","I">>, <<"R","o","b","o","t","o">>,
  <<"H","e","l","v","e","t","i","c","a"," ","N","e","u","e">>, <<"A","r","i","a","l">>, <<"s","a","n","s","-","s","e","r","i","f">>, <<"S","F"," ","P","r","o">> >>

\* GENERIC_COLORS.includes(color.toLowerCase())
IsGenericColor(color) == arrayIncludes(GENERIC_COLORS, toLowerCase(color))

\* the inclusion the other way round: the font is part of a generic font name
IsPartOfGenericFont(font) ==
  \E i \in DOMAIN GENERIC_FONTS : includes(toLowerCase(GENERIC_FONTS[i]), toLowerCase(font))

\* GENERIC_FONTS.some(gf => font.toLowerCase().includes(gf.toLowerCase()))
IsGenericFont(font) ==
  \E i \in DOMAIN GENERIC_FONTS : includes(toLowerCase(font), toLowerCase(GENERIC_FONTS[i]))

\* ------------------------------------------------------------------------
\* scanCSS
\* ------------------------------------------------------------------------

\* all matches of /#[0-9a-fA-F]{3,8}/g in s from position i on, in order
RECURSIVE HexMatchesFrom(_, _)
HexMatchesFrom(s, i) ==
  LET starts == {j \in i..Len(s) : s[j] = "#" /\ RunLen(s, j + 1, HexDigitChars) >= 3}
  IN IF starts = {} THEN <<>>
     ELSE LET b == MinOf(starts)
              n == Min(RunLen(s, b + 1, HexDigitChars), 8)
          IN <<SubSeq(s, b, b + n)>> \o HexMatchesFrom(s, b + n + 1)

\* value.match(/#[0-9a-fA-F]{3,8}/g)
HexMatches(s) == HexMatchesFrom(s, 1)

NoMatch == [found |-> FALSE]

\* position of the first ";" of s at or after i; 0 when there is none
NextSemicolon(s, i) ==
  IF \E q \in i..Len(s) : s[q] = ";"
  THEN CHOOSE q \in i..Len(s) : s[q] = ";" /\ \A r \in i..(q - 1) : s[r] # ";"
  ELSE 0

\* one attempt of /--([\w-]+):\s*([^;]+);/ at position i of s
VarMatchAt(s, i) ==
  IF ~OccursAt(s, <<"-", "-">>, i) THEN NoMatch
  ELSE LET n == RunLen(s, i + 2, WordDashChars)
           c == i + 2 + n
       IN IF n = 0 \/ c > Len(s) \/ s[c] # ":" THEN NoMatch
          ELSE LET w == RunLen(s, c + 1, SpaceChars)
                   v == c + 1 + w
                   q == NextSemicolon(s, v)
               IN IF q = 0 THEN NoMatch
                  ELSE IF q > v
                  THEN [found |-> TRUE, name |-> SubSeq(s, i + 2, c - 1),
                        value |-> SubSeq(s, v, q - 1), end |-> q]
                  \* \s* gives one whitespace character back to [^;]+
                  ELSE IF w >= 1
                  THEN [found |-> TRUE, name |-> SubSeq(s, i + 2, c - 1),
                        value |-> SubSeq(s, v - 1, q - 1), end |-> q]
                  ELSE NoMatch

\* the successive matches of varRegex.exec(css), from position i on
RECURSIVE VarMatchesFrom(_, _)
VarMatchesFrom(s, i) ==
  LET starts == {j \in i..Len(s) : VarMatchAt(s, j).found}
  IN IF starts = {} THEN <<>>
     ELSE LET m == VarMatchAt(s, MinOf(starts))
          IN <<[name |-> m.name, value |-> m.value]>> \o VarMatchesFrom(s, m.end + 1)

\* all matches of /["']?([A-Za-z\s]+)["']?/g in s from position i on
RECURSIVE FontMatchesFrom(_, _)
FontMatchesFrom(s, i) ==
  IF i > Len(s) THEN <<>>
  ELSE LET b == IF s[i] \in QuoteChars /\ RunLen(s, i + 1, AlphaSpaceChars) >= 1
                THEN i + 1 ELSE i
           n == RunLen(s, b, AlphaSpaceChars)
           e == IF b + n <= Len(s) /\ s[b + n] \in QuoteChars THEN b + n ELSE b + n - 1
       IN IF n >= 1
          THEN <<SubSeq(s, i, e)>> \o FontMatchesFrom(s, e + 1)
          ELSE FontMatchesFrom(s, i + 1)

\* value.match(/["']?([A-Za-z\s]+)["']?/g)
FontMatches(s) == FontMatchesFrom(s, 1)

\* fontMatch.forEach(f => ...): the fonts after the matches ms[k..] are handled
RECURSIVE AddFonts(_, _, _)
AddFonts(fonts, ms, k) ==
  IF k > Len(ms) THEN fonts
  ELSE LET fontName == trim(RemoveQuotes(ms[k]))
       IN AddFonts(IF fontName # <<>> /\ ~arrayIncludes(fonts, fontName)
                   THEN Append(fonts, fontName) ELSE fonts,
                   ms, k + 1)

EmptyScan == [colors |-> <<>>, fonts |-> <<>>, variables |-> <<>>, spacing |-> <<>>]

\* the body of the while loop over varRegex matches, for one match
ScanVariable(acc, name, value) ==
  LET colors1 ==
        IF includes(value, <<"#">>) \/ includes(value, <<"r","g","b">>)
           \/ includes(value, <<"h","s","l">>)
        THEN acc.colors \o [k \in DOMAIN HexMatches(value) |-> toLowerCase(HexMatches(value)[k])]
        ELSE acc.colors
      fonts1 ==
        IF includes(name, <<"f","o","n","t">>) \/ includes(name, <<"f","a","m","i","l","y">>)
        THEN AddFonts(acc.fonts, FontMatches(value), 1)
        ELSE acc.fonts
      spacing1 ==
        IF includes(name, <<"s","p","a","c","i","n","g">>) \/ includes(name, <<"s","p","a","c","e">>)
           \/ includes(name, <<"g","a","p">>)
        THEN Append(acc.spacing, trim(value))
        ELSE acc.spacing
  IN [colors |-> colors1, fonts |-> fonts1,
      variables |-> ObjPut(acc.variables, <<"-", "-">> \o name, trim(value)),
      spacing |-> spacing1]

RECURSIVE ScanVariables(_, _, _)
ScanVariables(acc, ms, k) ==
  IF k > Len(ms) THEN acc
  ELSE ScanVariables(ScanVariable(acc, ms[k].name, ms[k].value), ms, k + 1)

\* mutant of ScanInlineHex: every inline hex literal is appended, also one that
\* is already in the sequence
RECURSIVE ScanInlineHexNoDedup(_, _, _)
ScanInlineHexNoDedup(colors, ms, k) ==
  IF k > Len(ms) THEN colors
  ELSE ScanInlineHexNoDedup(Append(colors, toLowerCase(ms[k])), ms, k + 1)

\* the inline hex literals appended as they are written
RECURSIVE ScanInlineHexAsWritten(_, _, _)
ScanInlineHexAsWritten(colors, ms, k) ==
  IF k > Len(ms) THEN colors
  ELSE ScanInlineHexAsWritten(IF ~arrayIncludes(colors, ms[k]) THEN Append(colors, ms[k])
                              ELSE colors,
                              ms, k + 1)

\* the while loop over inlineHexRegex matches
RECURSIVE ScanInlineHex(_, _, _)
ScanInlineHex(colors, ms, k) ==
  IF k > Len(ms) THEN colors
  ELSE LET hex == toLowerCase(ms[k])
       IN ScanInlineHex(IF ~arrayIncludes(colors, hex) THEN Append(colors, hex) ELSE colors,
                        ms, k + 1)

scanCSS(css) ==
  LET declared == ScanVariables(EmptyScan, VarMatchesFrom(css, 1), 1)
  IN [declared EXCEPT !.colors = ScanInlineHex(declared.colors, HexMatches(css), 1)]

\* ------------------------------------------------------------------------
\* analyzeForGenericPatterns
\* ------------------------------------------------------------------------

StartScore == 100
GenericColorPenalty == 15
GenericFontPenalty == 10
BlandPalettePenalty == 10

GenericColorIssue(color) ==
  [type |-> "generic-color", severity |-> "high",
   description |-> <<"Generic AI color detected: ", color>>,
   value |-> color,
   suggestion |-> "Replace with a brand-derived color with clear rationale"]

GenericFontIssue(font) ==
  [type |-> "generic-font", severity |-> "medium",
   description |-> <<"Generic font detected: ", font>>,
   value |-> font,
   suggestion |-> "Consider a characterful font like Fraunces, DM Sans, or Source Serif"]

BlandPaletteIssue(colors) ==
  [type |-> "bland-palette", severity |-> "medium",
   description |-> <<"Limited color palette detected">>,
   value |-> joinComma(colors),
   suggestion |-> "Add accent colors and ensure primary/secondary/accent variety"]

\* mutant of CheckColors: a generic color that occurs again is reported and
\* penalised only once
RECURSIVE CheckColorsOnce(_, _, _)
CheckColorsOnce(acc, colors, k) ==
  IF k > Len(colors) THEN acc
  ELSE CheckColorsOnce(IF IsGenericColor(colors[k]) /\ \A j \in 1..(k - 1) : colors[j] # colors[k]
                       THEN [issues |-> Append(acc.issues, GenericColorIssue(colors[k])),
                             score |-> acc.score - GenericColorPenalty]
                       ELSE acc,
                       colors, k + 1)

\* scan.colors.forEach(color => ...), from the k-th color on
RECURSIVE CheckColors(_, _, _)
CheckColors(acc, colors, k) ==
  IF k > Len(colors) THEN acc
  ELSE CheckColors(IF IsGenericColor(colors[k])
                   THEN [issues |-> Append(acc.issues, GenericColorIssue(colors[k])),
                         score |-> acc.score - GenericColorPenalty]
                   ELSE acc,
                   colors, k + 1)

\* scan.fonts.forEach(font => ...), from the k-th font on
RECURSIVE CheckFonts(_, _, _)
CheckFonts(acc, fonts, k) ==
  IF k > Len(fonts) THEN acc
  ELSE CheckFonts(IF IsGenericFont(fonts[k])
                  THEN [issues |-> Append(acc.issues, GenericFontIssue(fonts[k])),
                        score |-> acc.score - GenericFontPenalty]
                  ELSE acc,
                  fonts, k + 1)

\* if (scan.colors.length > 0 && scan.colors.length < 3)
IsBlandPalette(colors) == Len(colors) > 0 /\ Len(colors) < 3

CheckPalette(acc, colors) ==
  IF IsBlandPalette(colors)
  THEN [issues |-> Append(acc.issues, BlandPaletteIssue(colors)),
        score |-> acc.score - BlandPalettePenalty]
  ELSE acc

Strengths(scan) ==
  LET uniqueColors == SelectSeq(scan.colors, LAMBDA c : ~IsGenericColor(c))
      uniqueFonts == SelectSeq(scan.fonts, LAMBDA f : ~IsGenericFont(f))
  IN (IF Len(uniqueColors) > 0
      THEN << <<numToString(Len(uniqueColors)), " unique colors found">> >> ELSE <<>>)
     \o
     (IF Len(uniqueFonts) > 0
      THEN << <<"Characterful fonts: ", joinComma(uniqueFonts)>> >> ELSE <<>>)

\* the score without the lower clamp
UnclampedScore(score) == score

\* Math.max(0, score)
ClampScore(score) == Max(0, score)

\* the pattern analysis of an already scanned text
AnalyzeScan(scan) ==
  LET a1 == CheckColors([issues |-> <<>>, score |-> StartScore], scan.colors, 1)
      a2 == CheckFonts(a1, scan.fonts, 1)
      a3 == CheckPalette(a2, scan.colors)
  IN [score |-> ClampScore(a3.score), issues |-> a3.issues, strengths |-> Strengths(scan)]

analyzeForGenericPatterns(css) == AnalyzeScan(scanCSS(css))

\* ------------------------------------------------------------------------
\* scanTailwindConfig
\* ------------------------------------------------------------------------

\* config.slice(colorsStart); config itself when there is no "colors:"
AfterColors(config) ==
  LET colorsStart == indexOf(config, <<"c","o","l","o","r","s",":">>)
  IN IF colorsStart = 0 THEN config ELSE SubSeq(config, colorsStart, Len(config))

\* the loop is entered: "colors:" is found and a "{" follows it
HasBraceStart(config) ==
  /\ indexOf(config, <<"c","o","l","o","r","s",":">>) # 0
  /\ indexOf(AfterColors(config), <<"{">>) # 0

\* afterColors.indexOf('{')
BraceStart(config) == indexOf(AfterColors(config), <<"{">>)

\* an unclosed block that runs to the end of the text
EndOfText(braceStart, length) == length

\* let end = braceStart
InitialEnd(braceStart, length) == braceStart

\* i++
NextIndex(i) == i + 1

\* if (afterColors[i] === '{') depth++; if (afterColors[i] === '}') depth--
DepthAfter(depth, ch) ==
  IF ch = "{" THEN depth + 1 ELSE IF ch = "}" THEN depth - 1 ELSE depth

\* the for loop that balances the braces of afterColors from braceStart on:
\* the position where the depth returns to 0, braceStart when it never does
\* (the characters between two braces leave the depth as it is and are
\* passed over in one go)
RECURSIVE BraceEnd(_, _, _, _)
BraceEnd(afterColors, i, depth, braceStart) ==
  IF i > Len(afterColors) THEN braceStart
  ELSE LET d == DepthAfter(depth, afterColors[i])
           braces == {k \in (i + 1)..Len(afterColors) : afterColors[k] \in {"{", "}"}}
       IN IF d = 0 THEN i
          ELSE IF braces = {} THEN braceStart
          ELSE BraceEnd(afterColors, MinOf(braces), d, braceStart)

\* the text between the braces that follow the first "colors:"
ColorBlock(config) ==
  LET colorsStart == indexOf(config, <<"c","o","l","o","r","s",":">>)
  IN IF colorsStart = 0 THEN <<>>
     ELSE LET afterColors == SubSeq(config, colorsStart, Len(config))
              braceStart == indexOf(afterColors, <<"{">>)
          IN IF braceStart = 0 THEN <<>>
             ELSE SubSeq(afterColors, braceStart + 1,
                         BraceEnd(afterColors, braceStart, 0, braceStart) - 1)

\* position of the first "}" of s at or after i; 0 when there is none
NextCloseBrace(s, i) ==
  IF \E q \in i..Len(s) : s[q] = "}"
  THEN CHOOSE q \in i..Len(s) : s[q] = "}" /\ \A r \in i..(q - 1) : s[r] # "}"
  ELSE 0

\* one attempt of /(\w+):\s*\{([\s\S]*?)\}/ at position i of s
NestedMatchAt(s, i) ==
  LET n == RunLen(s, i, WordChars)
      c == i + n
  IN IF n = 0 \/ c > Len(s) \/ s[c] # ":" THEN NoMatch
     ELSE LET b == c + 1 + RunLen(s, c + 1, SpaceChars)
          IN IF b > Len(s) \/ s[b] # "{" THEN NoMatch
             ELSE LET q == NextCloseBrace(s, b + 1)
                  IN IF q = 0 THEN NoMatch
                     ELSE [found |-> TRUE, prefix |-> SubSeq(s, i, c - 1),
                           nested |-> SubSeq(s, b + 1, q - 1), end |-> q]

\* one attempt of /['"]?(\d+)['"]?:\s*['"]?(#[0-9a-fA-F]{3,8})['"]?/ at i
NestedColorAt(s, i) ==
  LET d == IF s[i] \in QuoteChars THEN i + 1 ELSE i
      n == RunLen(s, d, DigitChars)
      c == IF d + n <= Len(s) /\ s[d + n] \in QuoteChars THEN d + n + 1 ELSE d + n
  IN IF n = 0 \/ c > Len(s) \/ s[c] # ":" THEN NoMatch
     ELSE LET v == c + 1 + RunLen(s, c + 1, SpaceChars)
              h == IF v <= Len(s) /\ s[v] \in QuoteChars THEN v + 1 ELSE v
              r == Min(RunLen(s, h + 1, HexDigitChars), 8)
          IN IF h > Len(s) \/ s[h] # "#" \/ r < 3 THEN NoMatch
             ELSE [found |-> TRUE, key |-> SubSeq(s, d, d + n - 1),
                   value |-> SubSeq(s, h, h + r),
                   end |-> IF h + r + 1 <= Len(s) /\ s[h + r + 1] \in QuoteChars
                           THEN h + r + 1 ELSE h + r]

\* while ((nestedMatch = nestedColors.exec(nested)) !== null), from position i
RECURSIVE AddNestedColors(_, _, _, _)
AddNestedColors(colors, prefix, nested, i) ==
  LET starts == {j \in i..Len(nested) : NestedColorAt(nested, j).found}
  IN IF starts = {} THEN colors
     ELSE LET m == NestedColorAt(nested, MinOf(starts))
          IN AddNestedColors(ObjPut(colors, prefix \o <<"-">> \o m.key, m.value),
                             prefix, nested, m.end + 1)

\* while ((match = nestedRegex.exec(colorBlock)) !== null), from position i
RECURSIVE ScanNested(_, _, _)
ScanNested(colors, colorBlock, i) ==
  LET starts == {j \in i..Len(colorBlock) : NestedMatchAt(colorBlock, j).found}
  IN IF starts = {} THEN colors
     ELSE LET m == NestedMatchAt(colorBlock, MinOf(starts))
          IN ScanNested(AddNestedColors(colors, m.prefix, m.nested, 1), colorBlock, m.end + 1)

\* (?!\s*\}) at position p of s
NotBeforeCloseBrace(s, p) ==
  LET q == p + RunLen(s, p, SpaceChars)
  IN q > Len(s) \/ s[q] # "}"

\* one attempt of /(\w+):\s*['"]?(#[0-9a-fA-F]{3,8})['"]?(?!\s*\})/ at i: the
\* closing quote and then the last hex digits are given back until the
\* lookahead holds
FlatMatchAt(s, i) ==
  LET n == RunLen(s, i, WordChars)
      c == i + n
  IN IF n = 0 \/ c > Len(s) \/ s[c] # ":" THEN NoMatch
     ELSE LET v == c + 1 + RunLen(s, c + 1, SpaceChars)
              h == IF v <= Len(s) /\ s[v] \in QuoteChars THEN v + 1 ELSE v
              r == Min(RunLen(s, h + 1, HexDigitChars), 8)
              key == SubSeq(s, i, c - 1)
              quoted == h + r + 1 <= Len(s) /\ s[h + r + 1] \in QuoteChars
          IN IF h > Len(s) \/ s[h] # "#" \/ r < 3 THEN NoMatch
             ELSE IF quoted /\ NotBeforeCloseBrace(s, h + r + 2)
             THEN [found |-> TRUE, key |-> key, value |-> SubSeq(s, h, h + r), end |-> h + r + 1]
             ELSE IF NotBeforeCloseBrace(s, h + r + 1)
             THEN [found |-> TRUE, key |-> key, value |-> SubSeq(s, h, h + r), end |-> h + r]
             ELSE IF r > 3
             THEN [found |-> TRUE, key |-> key, value |-> SubSeq(s, h, h + r - 1),
                   end |-> h + r - 1]
             ELSE NoMatch

\* while ((match = flatColorRegex.exec(colorBlock)) !== null), from position i
RECURSIVE ScanFlat(_, _, _)
ScanFlat(colors, colorBlock, i) ==
  LET starts == {j \in i..Len(colorBlock) : FlatMatchAt(colorBlock, j).found}
  IN IF starts = {} THEN colors
     ELSE LET m == FlatMatchAt(colorBlock, MinOf(starts))
          IN ScanFlat(
               IF ~ObjHas(colors, m.key)
                  /\ ~\E k \in DOMAIN colors : startsWith(colors[k][1], m.key \o <<"-">>)
               THEN ObjPut(colors, m.key, m.value) ELSE colors,
               colorBlock, m.end + 1)

FontFamilyToken == <<"f","o","n","t","F","a","m","i","l","y",":">>

\* one attempt of /fontFamily:\s*\{([^}]+)\}/s at position i of config
FontBlockAt(config, i) ==
  IF ~OccursAt(config, FontFamilyToken, i) THEN NoMatch
  ELSE LET a == i + Len(FontFamilyToken)
           b == a + RunLen(config, a, SpaceChars)
       IN IF b > Len(config) \/ config[b] # "{" THEN NoMatch
          ELSE LET q == NextCloseBrace(config, b + 1)
               IN IF q = 0 \/ q = b + 1 THEN NoMatch
                  ELSE [found |-> TRUE, block |-> SubSeq(config, b + 1, q - 1)]

\* config.match(fontBlockRegex): the first position where it matches
FontBlock(config) ==
  IF \E i \in DOMAIN config : FontBlockAt(config, i).found
  THEN FontBlockAt(config, CHOOSE i \in DOMAIN config :
                             /\ FontBlockAt(config, i).found
                             /\ \A j \in 1..(i - 1) : ~FontBlockAt(config, j).found)
  ELSE NoMatch

\* one attempt of /['"]([A-Za-z\s]+)['"],?/ at position i of s
QuotedFontAt(s, i) ==
  LET n == RunLen(s, i + 1, AlphaSpaceChars)
      q == i + 1 + n
  IN IF s[i] \notin QuoteChars \/ n = 0 \/ q > Len(s) \/ s[q] \notin QuoteChars THEN NoMatch
     ELSE [found |-> TRUE, name |-> SubSeq(s, i + 1, q - 1),
           end |-> IF q + 1 <= Len(s) /\ s[q + 1] = "," THEN q + 1 ELSE q]

\* the whole reference list
AllGenericFonts == GENERIC_FONTS

\* GENERIC_FONTS.slice(1)
GenericFontsButFirst == Tail(GENERIC_FONTS)

\* while ((match = fontRegex.exec(fontBlock)) !== null), from position i
RECURSIVE ScanQuotedFonts(_, _, _)
ScanQuotedFonts(fonts, fontBlock, i) ==
  LET starts == {j \in i..Len(fontBlock) : QuotedFontAt(fontBlock, j).found}
  IN IF starts = {} THEN fonts
     ELSE LET m == QuotedFontAt(fontBlock, MinOf(starts))
              fontName == trim(m.name)
          IN ScanQuotedFonts(
               IF fontName # <<>> /\ ~arrayIncludes(fonts, fontName)
                  /\ ~arrayIncludes(GenericFontsButFirst, fontName)
               THEN Append(fonts, fontName) ELSE fonts,
               fontBlock, m.end + 1)

\* the function from "if (colorBlock)" on
ScanBlocks(config, colorBlock) ==
  LET fontMatch == FontBlock(config)
  IN [colors |-> IF colorBlock # <<>>
                 THEN ScanFlat(ScanNested(<<>>, colorBlock, 1), colorBlock, 1)
                 ELSE <<>>,
      fonts |-> IF fontMatch.found THEN ScanQuotedFonts(<<>>, fontMatch.block, 1) ELSE <<>>,
      spacing |-> <<>>]

scanTailwindConfig(config) == ScanBlocks(config, ColorBlock(config))

\* ------------------------------------------------------------------------
\* generateMigration
\* ------------------------------------------------------------------------

\* const roles = Object.keys(improvedColors): the literal's keys, in order
ROLES == <<
  <<"p","r","i","m","a","r","y">>, <<"s","e","c","o","n","d","a","r","y">>, <<"a","c","c","e","n","t">>, <<"b","a","c","k","g","r","o","u","n","d">>, <<"s","u","r","f","a","c","e">>, <<"t","e","x","t">> >>

\* an `improved` argument: undefined, or an object that may lack its colors or
\* its typography; colors is the six-role palette as role -> value
Undefined == [kind |-> "undefined", hasColors |-> FALSE, colors |-> <<>>,
              hasTypography |-> FALSE, display |-> <<>>, body |-> <<>>]

EmptyObject == [Undefined EXCEPT !.kind = "object"]

TokenSet(palette, display, body) ==
  [kind |-> "object", hasColors |-> TRUE,
   colors |-> [i \in DOMAIN ROLES |-> <<ROLES[i], palette[i]>>],
   hasTypography |-> TRUE, display |-> display, body |-> body]

\* the result of a call that threw a TypeError (a property read of undefined)
TypeErrorResult ==
  [error |-> "TypeError", colorMappings |-> <<>>, fontMappings |-> <<>>,
   cssReplacements |-> <<>>]

\* const improvedColors = { primary: improved.colors.primary.value, ... }
ImprovedColors(improved) ==
  [i \in DOMAIN ROLES |-> <<ROLES[i], ObjGet(improved.colors, ROLES[i])>>]

\* mutant of MapColors: the role rotates over the matched colors only
RECURSIVE MapColorsByMatch(_, _, _, _)
MapColorsByMatch(acc, colorValues, improvedColors, k) ==
  IF k > Len(colorValues) THEN acc
  ELSE LET normalizedColor == toLowerCase(colorValues[k])
           roles == ObjKeys(improvedColors)
           targetRole == roles[(Len(acc.cssReplacements) % Len(roles)) + 1]
       IN MapColorsByMatch(
            IF arrayIncludes(GENERIC_COLORS, normalizedColor)
            THEN [acc EXCEPT
                    !.colorMappings =
                       ObjPut(@, normalizedColor, ObjGet(improvedColors, targetRole)),
                    !.cssReplacements =
                       Append(@, [from |-> normalizedColor,
                                  to |-> ObjGet(improvedColors, targetRole)])]
            ELSE acc,
            colorValues, improvedColors, k + 1)

\* colorValues.forEach((color, index) => ...), from the k-th value on;
\* index = k - 1
RECURSIVE MapColors(_, _, _, _)
MapColors(acc, colorValues, improvedColors, k) ==
  IF k > Len(colorValues) THEN acc
  ELSE LET normalizedColor == toLowerCase(colorValues[k])
           roles == ObjKeys(improvedColors)
           targetRole == roles[((k - 1) % Len(roles)) + 1]
       IN MapColors(
            IF arrayIncludes(GENERIC_COLORS, normalizedColor)
            THEN [acc EXCEPT
                    !.colorMappings =
                       ObjPut(@, normalizedColor, ObjGet(improvedColors, targetRole)),
                    !.cssReplacements =
                       Append(@, [from |-> normalizedColor,
                                  to |-> ObjGet(improvedColors, targetRole)])]
            ELSE acc,
            colorValues, improvedColors, k + 1)

\* mutant of BodyFamily: the display family
DisplayFamily(improved) == improved.display

\* improved.typography.body.family
BodyFamily(improved) == improved.body

\* mutant of MapFonts: the font mapping is recorded without its replacement
\* directive
RECURSIVE MapFontsWithoutDirective(_, _, _, _)
MapFontsWithoutDirective(acc, fonts, improved, k) ==
  IF k > Len(fonts) THEN acc
  ELSE IF ~IsGenericFont(fonts[k]) THEN MapFontsWithoutDirective(acc, fonts, improved, k + 1)
  ELSE IF ~improved.hasTypography THEN TypeErrorResult
  ELSE MapFontsWithoutDirective(
         [acc EXCEPT !.fontMappings = ObjPut(@, fonts[k], BodyFamily(improved))],
         fonts, improved, k + 1)

\* current.fonts.forEach(font => ...), from the k-th font on; the read of
\* improved.typography.body throws when the typography is missing
RECURSIVE MapFonts(_, _, _, _)
MapFonts(acc, fonts, improved, k) ==
  IF k > Len(fonts) THEN acc
  ELSE IF ~IsGenericFont(fonts[k]) THEN MapFonts(acc, fonts, improved, k + 1)
  ELSE IF ~improved.hasTypography THEN TypeErrorResult
  ELSE MapFonts([acc EXCEPT
                   !.fontMappings = ObjPut(@, fonts[k], BodyFamily(improved)),
                   !.cssReplacements =
                      Append(@, [from |-> fonts[k], to |-> BodyFamily(improved)])],
                fonts, improved, k + 1)

generateMigration(current, improved) ==
  \* improved.colors.primary.value throws on an absent or empty target
  IF improved.kind = "undefined" \/ ~improved.hasColors THEN TypeErrorResult
  ELSE LET empty == [error |-> "none", colorMappings |-> <<>>, fontMappings |-> <<>>,
                     cssReplacements |-> <<>>]
           colorValues == ObjValues(current.colors)
           mapped == MapColors(empty, colorValues, ImprovedColors(improved), 1)
       IN MapFonts(mapped, current.fonts, improved, 1)

\* ------------------------------------------------------------------------
\* Inputs of generateMigration
\* ------------------------------------------------------------------------

\* at most MaxColors current colors, at most MaxFonts current fonts
MaxColors == 7
MaxFonts == 2

MigrationColorValues == << <<"#","3","B","8","2","F","6">>, <<"#","6","3","6","6","f","1">>, <<"#","2","d","5","a","4","a">> >>

MigrationFonts == << <<"I","n","t","e","r">>, <<"F","r","a","u","n","c","e","s">>, <<"H","e","l","v","e","t","i","c","a"," ","N","e","u","e">> >>

\* keys as analyzeProject synthesizes them: color-0, color-1, ...
SyntheticKey(i) == <<"c","o","l","o","r","-">> \o numToString(i - 1)

\* keys as a Tailwind config gives them: a name and numeric shades
ShadeKeys == << <<"b","r","a","n","d">>, <<"5","0","0">>, <<"5","0">> >>

\* the object a literal whose properties are written in this order evaluates to
RECURSIVE ObjectLiteral(_)
ObjectLiteral(entries) ==
  IF entries = <<>> THEN <<>>
  ELSE ObjPut(ObjectLiteral(SubSeq(entries, 1, Len(entries) - 1)),
              entries[Len(entries)][1], entries[Len(entries)][2])

\* the improved tokens generateUpgrade passes
UpgradeTarget ==
  TokenSet(<< <<"#","3","D","8","F","6","4">>, <<"#","F","5","A","6","2","3">>, <<"#","E","0","5","A","4","7">>, <<"#","F","F","F","C","F","9">>, <<"#","F","F","F","F","F","F">>, <<"#","2","5","2","2","1","E">> >>,
           <<"F","r","a","u","n","c","e","s">>, <<"S","o","u","r","c","e"," ","S","a","n","s"," ","3">>)

\* a target with its colors and without typography
ColorsOnlyTarget == [UpgradeTarget EXCEPT !.hasTypography = FALSE, !.display = <<>>, !.body = <<>>]

Targets == {Undefined, EmptyObject, ColorsOnlyTarget, UpgradeTarget}

SyntheticColorEntries ==
  UNION {{[i \in 1..n |-> <<SyntheticKey(i), MigrationColorValues[pick[i]]>>] :
            pick \in [1..n -> DOMAIN MigrationColorValues]} : n \in 0..MaxColors}

ShadeColorEntries ==
  UNION {{[i \in 1..n |-> <<ShadeKeys[i], MigrationColorValues[pick[i]]>>] :
            pick \in [1..n -> DOMAIN MigrationColorValues]} : n \in 1..Len(ShadeKeys)}

FontLists ==
  UNION {{[i \in 1..n |-> MigrationFonts[pick[i]]] :
            pick \in [1..n -> DOMAIN MigrationFonts]} : n \in 0..MaxFonts}

\* ------------------------------------------------------------------------
\* analyzeProject, generateUpgrade
\* ------------------------------------------------------------------------

\* a file is analyzed as a stylesheet also when it is a Tailwind configuration
IsStylesheetOrTailwind(filename) ==
  \/ endsWith(filename, <<".","c","s","s">>) \/ endsWith(filename, <<".","s","c","s","s">>)
  \/ includes(filename, <<"t","a","i","l","w","i","n","d",".","c","o","n","f","i","g">>)

\* filename.endsWith('.css') || filename.endsWith('.scss')
IsCssFile(filename) == endsWith(filename, <<".","c","s","s">>) \/ endsWith(filename, <<".","s","c","s","s">>)

\* filename.includes('tailwind.config')
IsTailwindFile(filename) == includes(filename, <<"t","a","i","l","w","i","n","d",".","c","o","n","f","i","g">>)

\* scan.colors.forEach((c, i) => { allColors[`color-${Object.keys(allColors).length}`] = c })
RECURSIVE FoldColors(_, _, _)
FoldColors(allColors, colors, k) ==
  IF k > Len(colors) THEN allColors
  ELSE FoldColors(ObjPut(allColors, <<"c","o","l","o","r","-">> \o numToString(Len(ObjKeys(allColors))), colors[k]),
                  colors, k + 1)

\* allFonts.push(...fonts.filter(f => !allFonts.includes(f)))
PushNewFonts(allFonts, fonts) ==
  allFonts \o SelectSeq(fonts, LAMBDA f : ~arrayIncludes(allFonts, f))

DefaultScore == 50
RegenerateBelow == 60

\* the mean with the fraction cut off
TruncatedMean(totalScore, fileCount) == totalScore \div fileCount

\* Math.round(totalScore / fileCount), both non-negative
RoundedMean(totalScore, fileCount) == (2 * totalScore + fileCount) \div (2 * fileCount)

\* const avgScore = fileCount > 0 ? Math.round(totalScore / fileCount) : 50
AvgScore(totalScore, fileCount) ==
  IF fileCount > 0 THEN RoundedMean(totalScore, fileCount) ELSE DefaultScore

ReplaceColorsText == "Replace generic Tailwind colors with brand-derived palette"
CharacterfulFontsText == "Consider characterful fonts like Fraunces, DM Sans, or Source Serif"
RegenerateText == "Run /nano-ui:design-system to generate a unique design system"

\* the recommendations as one chain of alternatives
FirstRecommendation(allIssues, avgScore) ==
  IF \E k \in DOMAIN allIssues : allIssues[k].type = "generic-color"
  THEN <<ReplaceColorsText>>
  ELSE IF \E k \in DOMAIN allIssues : allIssues[k].type = "generic-font"
       THEN <<CharacterfulFontsText>>
       ELSE IF avgScore < RegenerateBelow THEN <<RegenerateText>> ELSE <<>>

Recommendations(allIssues, avgScore) ==
  (IF \E k \in DOMAIN allIssues : allIssues[k].type = "generic-color"
   THEN <<ReplaceColorsText>> ELSE <<>>)
  \o (IF \E k \in DOMAIN allIssues : allIssues[k].type = "generic-font"
      THEN <<CharacterfulFontsText>> ELSE <<>>)
  \o (IF avgScore < RegenerateBelow THEN <<RegenerateText>> ELSE <<>>)

\* for (const [key, value] of Object.entries(filteredColors)):
\*   if (options.preserveColors.includes(value)) delete filteredColors[key]
RECURSIVE FilterColors(_, _, _, _)
FilterColors(filteredColors, entries, preserveColors, k) ==
  IF k > Len(entries) THEN filteredColors
  ELSE FilterColors(IF arrayIncludes(preserveColors, entries[k][2])
                    THEN ObjDelete(filteredColors, entries[k][1])
                    ELSE filteredColors,
                    entries, preserveColors, k + 1)

\* the colors handed to generateMigration
FilteredColors(colors, options) ==
  IF options.hasPreserveColors
  THEN FilterColors(colors, colors, options.preserveColors, 1)
  ELSE colors

\* fonts.filter(f => !options.preserveFonts?.includes(f))
FilteredFonts(fonts, options) ==
  SelectSeq(fonts, LAMBDA f : ~(options.hasPreserveFonts /\ arrayIncludes(options.preserveFonts, f)))

\* ------------------------------------------------------------------------
\* Inputs of analyzeProject and generateUpgrade
\* ------------------------------------------------------------------------

\* at most MaxFiles files
MaxFiles == 2

FileNames == << <<"a",".","c","s","s">>, <<"b",".","s","c","s","s">>, <<"t","a","i","l","w","i","n","d",".","c","o","n","f","i","g",".","j","s">>, <<"n","o","t","e","s",".","t","x","t">> >>

FileContents == <<
  \* --primary: #3b82f6;
  <<"-","-","p","r","i","m","a","r","y",":"," ","#","3","b","8","2","f","6",";">>,
  \* --brand: #2D5A4A;
  <<"-","-","b","r","a","n","d",":"," ","#","2","D","5","A","4","A",";">>,
  \* --grad: #667eea #764ba2 #8e37d7;
  <<"-","-","g","r","a","d",":"," ","#","6","6","7","e","e","a"," ","#","7","6","4","b","a","2"," ","#","8","e","3","7","d","7",";">>,
  \* --font-sans: Inter, Roboto, Arial, Segoe UI, SF Pro;
  <<"-","-","f","o","n","t","-","s","a","n","s",":"," ","I","n","t","e","r",","," ","R","o","b","o","t","o",","," ","A","r","i","a","l",","," ","S","e","g","o","e"," ","U","I",","," ","S","F"," ","P","r","o",";">>,
  \* colors: { blue: '#3B82F6', brand: { 500: '#2D5A4A' } }
  <<"c","o","l","o","r","s",":"," ","{"," ","b","l","u","e",":"," ","'","#","3","B","8","2","F","6","'",","," ","b","r","a","n","d",":"," ","{"," ","5","0","0",":"," ","'","#","2","D","5","A","4","A","'"," ","}"," ","}">>,
  \* fontFamily: { sans: ['Inter', 'Fraunces'] }
  <<"f","o","n","t","F","a","m","i","l","y",":"," ","{"," ","s","a","n","s",":"," ","[","'","I","n","t","e","r","'",","," ","'","F","r","a","u","n","c","e","s","'","]"," ","}">>,
  \* colors: { color: { 2: '#111111' } }
  <<"c","o","l","o","r","s",":"," ","{"," ","c","o","l","o","r",":"," ","{"," ","2",":"," ","'","#","1","1","1","1","1","1","'"," ","}"," ","}">> >>

\* the files of a project, in Object.entries order: distinct names
FileLists ==
  UNION {{[i \in 1..n |-> <<FileNames[names[i]], FileContents[contents[i]]>>] :
            names \in {f \in [1..n -> DOMAIN FileNames] :
                         \A i, j \in 1..n : i # j => f[i] # f[j]},
            contents \in [1..n -> DOMAIN FileContents]} : n \in 0..MaxFiles}

NoOptions == [hasPreserveColors |-> FALSE, preserveColors |-> <<>>,
              hasPreserveFonts |-> FALSE, preserveFonts |-> <<>>]

PreserveColorLists ==
  { << <<"#","3","b","8","2","f","6">> >>, << <<"#","3","B","8","2","F","6">> >>, << <<"#","2","d","5","a","4","a">> >>,
    << <<"#","3","b","8","2","f","6">>, <<"#","3","B","8","2","F","6">>, <<"#","2","d","5","a","4","a">> >> }

PreserveFontLists == { << <<"I","n","t","e","r">> >> }

OptionsSet ==
  {[hasPreserveColors |-> pc # <<>>, preserveColors |-> pc,
    hasPreserveFonts |-> pf # <<>>, preserveFonts |-> pf] :
      pc \in PreserveColorLists \cup {<<>>}, pf \in PreserveFontLists \cup {<<>>}}

\* ------------------------------------------------------------------------
\* Inputs: the texts handed to the scanner
\* ------------------------------------------------------------------------

\* a text is the concatenation of at most MaxFragments of these pieces
MaxFragments == 3

CssFragments == <<
  \* --color-primary: #3b82f6;
  <<"-","-","c","o","l","o","r","-","p","r","i","m","a","r","y",":"," ","#","3","b","8","2","f","6",";">>,
  \* --secondary: #6366F1;
  <<"-","-","s","e","c","o","n","d","a","r","y",":"," ","#","6","3","6","6","F","1",";">>,
  \* --brand: #2D5A4A;
  <<"-","-","b","r","a","n","d",":"," ","#","2","D","5","A","4","A",";">>,
  \* --font-sans: Inter, system-ui;
  <<"-","-","f","o","n","t","-","s","a","n","s",":"," ","I","n","t","e","r",","," ","s","y","s","t","e","m","-","u","i",";">>,
  \* --font-display: Fraunces, serif;
  <<"-","-","f","o","n","t","-","d","i","s","p","l","a","y",":"," ","F","r","a","u","n","c","e","s",","," ","s","e","r","i","f",";">>,
  \* a{color:#3B82F6}
  <<"a","{","c","o","l","o","r",":","#","3","B","8","2","F","6","}">>,
  \* --grad: #667eea #764ba2 #8e37d7;
  <<"-","-","g","r","a","d",":"," ","#","6","6","7","e","e","a"," ","#","7","6","4","b","a","2"," ","#","8","e","3","7","d","7",";">>,
  \* b{color:#e07a5f}
  <<"b","{","c","o","l","o","r",":","#","e","0","7","a","5","f","}">>,
  \* --ring: #3b82f6 #3B82F6;
  <<"-","-","r","i","n","g",":"," ","#","3","b","8","2","f","6"," ","#","3","B","8","2","F","6",";">> >>

RECURSIVE ConcatAll(_)
ConcatAll(parts) == IF parts = <<>> THEN <<>> ELSE parts[1] \o ConcatAll(Tail(parts))

\* the text made of the fragments choice[1], choice[2], ...
TextOf(choice) == ConcatAll([k \in DOMAIN choice |-> CssFragments[choice[k]]])

FragmentChoices == UNION {[1..n -> DOMAIN CssFragments] : n \in 0..MaxFragments}

\* pieces with letter case in names, hex runs of every length, plain fonts
LiteralFragments == <<
  \* --Font-Sans: Inter;
  <<"-","-","F","o","n","t","-","S","a","n","s",":"," ","I","n","t","e","r",";">>,
  \* --FONT-FAMILY: Inter;
  <<"-","-","F","O","N","T","-","F","A","M","I","L","Y",":"," ","I","n","t","e","r",";">>,
  \* c{color:#12345}
  <<"c","{","c","o","l","o","r",":","#","1","2","3","4","5","}">>,
  \* --seven: #1234567;
  <<"-","-","s","e","v","e","n",":"," ","#","1","2","3","4","5","6","7",";">>,
  \* --x: #ab;
  <<"-","-","x",":"," ","#","a","b",";">>,
  \* --font-display: Fraunces, serif;
  <<"-","-","f","o","n","t","-","d","i","s","p","l","a","y",":"," ","F","r","a","u","n","c","e","s",","," ","s","e","r","i","f",";">>,
  \* --font-body: sans, ui;
  <<"-","-","f","o","n","t","-","b","o","d","y",":"," ","s","a","n","s",","," ","u","i",";">> >>

\* the text made of the pieces choice[1], choice[2], ...
LiteralTextOf(choice) == ConcatAll([k \in DOMAIN choice |-> LiteralFragments[choice[k]]])

LiteralChoices == UNION {[1..n -> DOMAIN LiteralFragments] : n \in 0..MaxFragments}

\* pieces of a Tailwind configuration: a colors block opened, nested and flat
\* entries, the closing brace, a fontFamily block
TailwindFragments == <<
  \* colors: { primary: '#3b82f6', 
  <<"c","o","l","o","r","s",":"," ","{"," ","p","r","i","m","a","r","y",":"," ","'","#","3","b","8","2","f","6","'",","," ">>,
  \* brand: { 50: '#fef2f2', 500: '#EF4444' }, 
  <<"b","r","a","n","d",":"," ","{"," ","5","0",":"," ","'","#","f","e","f","2","f","2","'",","," ","5","0","0",":"," ","'","#","E","F","4","4","4","4","'"," ","}",","," ">>,
  \* accent: '#e07a5f' 
  <<"a","c","c","e","n","t",":"," ","'","#","e","0","7","a","5","f","'"," ">>,
  \* brand: '#123456', 
  <<"b","r","a","n","d",":"," ","'","#","1","2","3","4","5","6","'",","," ">>,
  \* } 
  <<"}"," ">>,
  \* colors: { 
  <<"c","o","l","o","r","s",":"," ","{"," ">>,
  \* fontFamily: { sans: ['Inter', 'Roboto'], display: ['Playfair Display', 'Inter', 'SF Pro', 'Roboto Slab'] } 
  <<"f","o","n","t","F","a","m","i","l","y",":"," ","{"," ","s","a","n","s",":"," ","[","'","I","n","t","e","r","'",","," ","'","R","o","b","o","t","o","'","]",","," ","d","i","s","p","l","a","y",":"," ","[","'","P","l","a","y","f","a","i","r"," ","D","i","s","p","l","a","y","'",","," ","'","I","n","t","e","r","'",","," ","'","S","F"," ","P","r","o","'",","," ","'","R","o","b","o","t","o"," ","S","l","a","b","'","]"," ","}"," ">> >>

\* the configuration made of the pieces choice[1], choice[2], ...
ConfigOf(choice) == ConcatAll([k \in DOMAIN choice |-> TailwindFragments[choice[k]]])

TailwindChoices == UNION {[1..n -> DOMAIN TailwindFragments] : n \in 0..MaxFragments}

\* a braced text has at most MaxBracePieces pieces
MaxBracePieces == 5

\* an opening brace, a closing brace, a flat color entry
BracePieces == << <<"{">>, <<"}">>, <<"a",":","#","f","f","f",",">> >>

\* "colors:" followed by braces and entries in every arrangement
BraceConfigs ==
  {<<"c","o","l","o","r","s",":">> \o ConcatAll([k \in DOMAIN choice |-> BracePieces[choice[k]]]) :
     choice \in UNION {[1..n -> DOMAIN BracePieces] : n \in 0..MaxBracePieces}}

\* ------------------------------------------------------------------------
\* The model client (GeminiClient) and one design-system generation
\* ------------------------------------------------------------------------

\* the order of the client's methods in generateDesignSystem and handleGenerate
ModelCalls ==
  <<"analyzeBrand", "generatePalette", "generateTypography", "calculateUniquenessScore">>

\* TIER_FEATURES[tier].visuals
TierVisuals == [free |-> FALSE, indie |-> TRUE, team |-> TRUE, agency |-> TRUE]

\* TIER_FEATURES[tier].figmaExport
TierFigmaExport == [free |-> FALSE, indie |-> FALSE, team |-> TRUE, agency |-> TRUE]

Tiers == DOMAIN TierVisuals

\* the grave accent (U+0060), which a string of this language cannot hold
Backtick == "backtick"

\* cleaned.slice(n)
sliceFrom(s, n) == SubSeq(s, n + 1, Len(s))

\* cleaned.slice(0, -n)
sliceDropLast(s, n) == SubSeq(s, 1, Len(s) - n)

\* let cleaned = response.trim(); the code fences are removed; cleaned.trim()
StripCodeFences(response) ==
  LET trimmed == trim(response)
      opened == IF startsWith(trimmed, <<Backtick,Backtick,Backtick,"j","s","o","n">>) THEN sliceFrom(trimmed, 7)
                ELSE IF startsWith(trimmed, <<Backtick,Backtick,Backtick>>) THEN sliceFrom(trimmed, 3)
                ELSE trimmed
      closed == IF endsWith(opened, <<Backtick,Backtick,Backtick>>) THEN sliceDropLast(opened, 3) ELSE opened
  IN trim(closed)

\* cleaned.match(/\{[\s\S]*\}/): from the first "{" to the last "}" after it
JsonMatch(cleaned) ==
  LET opens == {i \in DOMAIN cleaned : cleaned[i] = "{"}
  IN IF opens = {} THEN [found |-> FALSE, text |-> <<>>]
     ELSE LET first == MinOf(opens)
              closes == {j \in first..Len(cleaned) : cleaned[j] = "}"}
          IN IF closes = {} THEN [found |-> FALSE, text |-> <<>>]
             ELSE [found |-> TRUE,
                   text |-> SubSeq(cleaned, first,
                                   CHOOSE j \in closes : \A k \in closes : k <= j)]

\* JSON.parse on the object texts the responses below can hold: the value is
\* kept as whether it has the avoidPatterns and embracePatterns arrays; any
\* other text is a SyntaxError
JsonObjects ==
  << <<<<"{","\"","a","v","o","i","d","P","a","t","t","e","r","n","s","\"",":","[","]",",","\"","e","m","b","r","a","c","e","P","a","t","t","e","r","n","s","\"",":","[","]","}">>, [patterns |-> TRUE]>>,
     <<<<"{","\"","t","o","t","a","l","\"",":","8","4","}">>, [patterns |-> FALSE]>>,
     <<<<"{","}">>, [patterns |-> FALSE]>> >>

NoValue == [patterns |-> FALSE]

\* private parseJSON<T>(response)
parseJSON(response) ==
  LET jsonMatch == JsonMatch(StripCodeFences(response))
  IN IF ~jsonMatch.found
     THEN [error |-> "Failed to parse JSON from response", value |-> NoValue]
     ELSE IF ~ObjHas(JsonObjects, jsonMatch.text)
     THEN [error |-> "SyntaxError", value |-> NoValue]
     ELSE [error |-> "none", value |-> ObjGet(JsonObjects, jsonMatch.text)]

\* response.status of the responses fetch resolves with
HttpStatuses == {200, 429, 500}

\* response.ok
ResponseOk(response) == response.status \in 200..299

\* data.candidates[0].content.parts[0].text of the response bodies, as the
\* model may answer
ResponseTexts ==
  { <<"{","\"","a","v","o","i","d","P","a","t","t","e","r","n","s","\"",":","[","]",",","\"","e","m","b","r","a","c","e","P","a","t","t","e","r","n","s","\"",":","[","]","}">>,
    <<Backtick,Backtick,Backtick,"j","s","o","n","\n","{","\"","t","o","t","a","l","\"",":","8","4","}","\n",Backtick,Backtick,Backtick>>,
    <<Backtick,Backtick,Backtick,"\n","{","}","\n",Backtick,Backtick,Backtick>>,
    <<"H","e","r","e",":"," ","{","\"","t","o","t","a","l","\"",":","8","4","}"," ","d","o","n","e">>,
    <<"S","o","r","r","y",","," ","n","o"," ","J","S","O","N">>,
    <<"{","n","o","t"," ","j","s","o","n","}">>,
    <<"{","}"," ","a","n","d"," ","{","}">> }

\* the body is not JSON, or JSON without a candidate text (an empty text
\* counts as none), or JSON with a candidate text
ResponseBodies ==
  {[json |-> FALSE, text |-> <<>>], [json |-> TRUE, text |-> <<>>]}
    \cup {[json |-> TRUE, text |-> t] : t \in ResponseTexts}

Responses ==
  {[status |-> s, json |-> b.json, text |-> b.text] : s \in HttpStatuses, b \in ResponseBodies}

\* private generate(prompt, options), from the response fetch resolved with
GenerateFrom(response) ==
  IF ~ResponseOk(response) THEN [error |-> "Gemini API error", text |-> <<>>]
  ELSE IF ~response.json THEN [error |-> "SyntaxError", text |-> <<>>]
  ELSE IF response.text = <<>> THEN [error |-> "No response from Gemini API", text |-> <<>>]
  ELSE [error |-> "none", text |-> response.text]

\* return this.parseJSON(response), after const response = await this.generate(...)
MethodResult(response) ==
  LET generated == GenerateFrom(response)
  IN IF generated.error # "none" THEN [error |-> generated.error, value |-> NoValue]
     ELSE parseJSON(generated.text)

\* the statement after a step of the generation that did not throw
NextStep(step) ==
  CASE step = "createClient" -> "analyzeBrand"
    [] step = "analyzeBrand" -> "generatePalette"
    [] step = "generatePalette" -> "generateTypography"
    [] step = "generateTypography" -> "calculateUniquenessScore"
    [] step = "calculateUniquenessScore" -> "files"
    [] step = "files" -> "visuals"
    [] OTHER -> "done"

ResumeAfterThrow(step) == NextStep(step)

\* an exception leaves the function: generateDesignSystem has no try, the
\* catch of handleGenerate returns
AfterThrow(step) == "done"

\* ------------------------------------------------------------------------
\* The premium API: validateApiKey, checkRateLimit, createHandler
\* ------------------------------------------------------------------------

\* apiKey.length < 20
MinKeyLength == 20

\* the value of a property that is absent
Absent == "absent"

\* validateApiKey ignoring the length of the key
ValidateByPrefixOnly(apiKey) ==
  IF startsWith(apiKey, <<"n","u","i","_","a","g","e","n","c","y","_">>) THEN [valid |-> TRUE, tier |-> "agency", error |-> Absent]
  ELSE IF startsWith(apiKey, <<"n","u","i","_","t","e","a","m","_">>) THEN [valid |-> TRUE, tier |-> "team", error |-> Absent]
  ELSE IF startsWith(apiKey, <<"n","u","i","_","i","n","d","i","e","_">>) THEN [valid |-> TRUE, tier |-> "indie", error |-> Absent]
  ELSE IF startsWith(apiKey, <<"n","u","i","_","f","r","e","e","_">>) THEN [valid |-> TRUE, tier |-> "free", error |-> Absent]
  ELSE [valid |-> FALSE, tier |-> Absent, error |-> "Unknown API key prefix"]

\* export async function validateApiKey(apiKey)
validateApiKey(apiKey) ==
  IF apiKey = <<>> \/ Len(apiKey) < MinKeyLength
  THEN [valid |-> FALSE, tier |-> Absent, error |-> "Invalid API key format"]
  ELSE IF startsWith(apiKey, <<"n","u","i","_","a","g","e","n","c","y","_">>)
  THEN [valid |-> TRUE, tier |-> "agency", error |-> Absent]
  ELSE IF startsWith(apiKey, <<"n","u","i","_","t","e","a","m","_">>)
  THEN [valid |-> TRUE, tier |-> "team", error |-> Absent]
  ELSE IF startsWith(apiKey, <<"n","u","i","_","i","n","d","i","e","_">>)
  THEN [valid |-> TRUE, tier |-> "indie", error |-> Absent]
  ELSE IF startsWith(apiKey, <<"n","u","i","_","f","r","e","e","_">>)
  THEN [valid |-> TRUE, tier |-> "free", error |-> Absent]
  ELSE [valid |-> FALSE, tier |-> Absent, error |-> "Unknown API key prefix"]

\* the keys a client may send: a beginning, then digits
MaxKeyTail == 12

KeyBeginnings ==
  { <<"n","u","i","_","a","g","e","n","c","y","_">>, <<"n","u","i","_","t","e","a","m","_">>, <<"n","u","i","_","i","n","d","i","e","_">>, <<"n","u","i","_","f","r","e","e","_">>,
    <<"n","u","i","_","p","r","o","_">>, <<"N","U","I","_","F","R","E","E","_">>, <<"x","n","u","i","_","f","r","e","e","_">>, <<>> }

KeyTail(n) == [i \in 1..n |-> numToString(i % 10)[1]]

ApiKeys == {beginning \o KeyTail(n) : beginning \in KeyBeginnings, n \in 0..MaxKeyTail}

\* ------------------------------------------------------------------------
\* State
\* ------------------------------------------------------------------------

VARIABLES
  op,        \* the exported function that was called, "none" before the call
  css,       \* scanCSS, analyzeForGenericPatterns: the argument
  scan,      \* scanCSS: the result; analyzeForGenericPatterns: the local scan
  analysis,  \* analyzeForGenericPatterns: the result
  written,   \* generateMigration: the properties of current.colors, as written
  current,   \* generateMigration: the argument current
  improved,  \* generateMigration: the argument improved
  migration, \* generateMigration: the result, or the error thrown
  files,     \* analyzeProject: the entries of the argument files
  position,  \* analyzeProject: the entry the loop is at
  allColors, \* analyzeProject: the local allColors
  allFonts,  \* analyzeProject: the local allFonts
  allIssues, \* analyzeProject: the local allIssues
  totalScore, \* analyzeProject: the local totalScore
  fileCount, \* analyzeProject: the local fileCount
  report,    \* analyzeProject: the result
  options,   \* generateUpgrade: preserveColors and preserveFonts of the argument
  config,    \* scanTailwindConfig: the argument
  loop,      \* scanTailwindConfig: the brace loop (i, depth, end, colorBlock)
  tailwind,  \* scanTailwindConfig: the result
  gen,       \* generateDesignSystem, handleGenerate: the generation under way
  http,      \* GeminiClient.generate: the last fetch and what it settled with
  apiKey,    \* validateApiKey: the argument
  validation, \* validateApiKey: the result
  rateLimit, \* checkRateLimit: the arguments and the result
  req,       \* the handler of createHandler: the request
  handler,   \* the handler of createHandler: its position and its response
  served,    \* the handler of createHandler: the requests it answered before
  mcp,       \* main: whether the server listens, the environment, the lines split so far, in order
  stdin,     \* main: the input that has not arrived yet
  buffer,    \* main: the local buffer
  listeners, \* main: the calls of the 'data' listener, each with its lines
  stdout     \* main: the responses written

patternVars == <<css, scan, analysis>>
migrationVars == <<written, current, improved, migration>>
tailwindVars == <<config, loop, tailwind>>
generateVars == <<gen, http>>
apiVars == <<apiKey, validation, rateLimit, req, handler, served>>
mcpVars == <<mcp, stdin, buffer, listeners, stdout>>
projectVars ==
  <<files, position, allColors, allFonts, allIssues, totalScore, fileCount, report, options>>
vars == <<op, css, scan, analysis, written, current, improved, migration,
          files, position, allColors, allFonts, allIssues, totalScore, fileCount, report,
          options, config, loop, tailwind, gen, http,
          apiKey, validation, rateLimit, req, handler, served,
          mcp, stdin, buffer, listeners, stdout>>

\* before main is called
NotStarted == [state |-> "idle", keySet |-> FALSE, received |-> <<>>]

EmptyAnalysis == [score |-> StartScore, issues |-> <<>>, strengths |-> <<>>]

\* before the brace loop
NoLoop == [phase |-> "before", i |-> 0, depth |-> 0, end |-> 0, colorBlock |-> <<>>]

EmptyTailwindScan == [colors |-> <<>>, fonts |-> <<>>, spacing |-> <<>>]

\* the promise of the generation: pending, or resolved (handleGenerate with
\* success and error), or rejected with error
PendingResult == [state |-> "pending", success |-> FALSE, error |-> "none"]

\* before generateDesignSystem or handleGenerate is called
NoGeneration ==
  [tier |-> "free", framework |-> FALSE, apiKey |-> FALSE, step |-> "idle",
   calls |-> <<>>, requests |-> <<>>, analysis |-> NoValue, errors |-> <<>>,
   visuals |-> FALSE, figma |-> FALSE, result |-> PendingResult]

\* validateApiKey was not called
NoValidation == [valid |-> FALSE, tier |-> Absent, error |-> Absent]

\* checkRateLimit was not called
NoRateLimit == [userId |-> Absent, tier |-> Absent, allowed |-> FALSE, remaining |-> 0]

\* the handler was not called
NoHandlerRequest == [method |-> Absent, headers |-> <<>>, body |-> <<>>]

\* the handler has not answered
NoHandlerResponse ==
  [step |-> "idle", status |-> 0, error |-> Absent, visuals |-> FALSE, figma |-> FALSE]

\* no fetch was made
NoRequest == [state |-> "idle", status |-> 0, json |-> FALSE, text |-> <<>>]

EmptyReport ==
  [returned |-> FALSE, currentScore |-> 0, issues |-> <<>>, recommendations |-> <<>>,
   extractedTokens |-> [colors |-> <<>>, fonts |-> <<>>]]

EmptyMigration ==
  [error |-> "none", colorMappings |-> <<>>, fontMappings |-> <<>>, cssReplacements |-> <<>>]

Init ==
  /\ op = "none"
  /\ css = <<>>
  /\ scan = EmptyScan
  /\ analysis = EmptyAnalysis
  /\ written = <<>>
  /\ current = [colors |-> <<>>, fonts |-> <<>>]
  /\ improved = Undefined
  /\ migration = EmptyMigration
  /\ files = <<>>
  /\ position = 1
  /\ allColors = <<>>
  /\ allFonts = <<>>
  /\ allIssues = <<>>
  /\ totalScore = 0
  /\ fileCount = 0
  /\ report = EmptyReport
  /\ options = NoOptions
  /\ config = <<>>
  /\ loop = NoLoop
  /\ tailwind = EmptyTailwindScan
  /\ gen = NoGeneration
  /\ http = NoRequest
  /\ apiKey = <<>>
  /\ validation = NoValidation
  /\ rateLimit = NoRateLimit
  /\ req = NoHandlerRequest
  /\ handler = NoHandlerResponse
  /\ served = 0
  /\ mcp = NotStarted
  /\ stdin = <<>>
  /\ buffer = <<>>
  /\ listeners = <<>>
  /\ stdout = <<>>

\* const result = scanCSS(css)
CallScanCSS ==
  /\ op = "none"
  /\ \E choice \in FragmentChoices :
       /\ css' = TextOf(choice)
       /\ scan' = scanCSS(TextOf(choice))
  /\ op' = "scanCSS"
  /\ UNCHANGED <<mcpVars, apiVars, generateVars, tailwindVars, analysis, migrationVars, projectVars>>

\* const result = analyzeForGenericPatterns(css)
CallAnalyzeForGenericPatterns ==
  /\ op = "none"
  /\ \E choice \in FragmentChoices :
       /\ css' = TextOf(choice)
       /\ scan' = scanCSS(TextOf(choice))
       /\ analysis' = analyzeForGenericPatterns(TextOf(choice))
  /\ op' = "analyzeForGenericPatterns"
  /\ UNCHANGED <<mcpVars, apiVars, generateVars, tailwindVars, migrationVars, projectVars>>

NextPattern == CallScanCSS \/ CallAnalyzeForGenericPatterns

\* the token scanner and the pattern matcher
SpecPattern == Init /\ [][NextPattern]_vars

\* const result = scanCSS(css), on the texts of LiteralChoices
CallScanCSSLiterals ==
  /\ op = "none"
  /\ \E choice \in LiteralChoices :
       /\ css' = LiteralTextOf(choice)
       /\ scan' = scanCSS(LiteralTextOf(choice))
  /\ op' = "scanCSS"
  /\ UNCHANGED <<mcpVars, apiVars, generateVars, tailwindVars, analysis, migrationVars, projectVars>>

\* const result = analyzeForGenericPatterns(css), on the texts of LiteralChoices
CallAnalyzeLiterals ==
  /\ op = "none"
  /\ \E choice \in LiteralChoices :
       /\ css' = LiteralTextOf(choice)
       /\ scan' = scanCSS(LiteralTextOf(choice))
       /\ analysis' = analyzeForGenericPatterns(LiteralTextOf(choice))
  /\ op' = "analyzeForGenericPatterns"
  /\ UNCHANGED <<mcpVars, apiVars, generateVars, tailwindVars, migrationVars, projectVars>>

NextLiterals == CallScanCSSLiterals \/ CallAnalyzeLiterals

\* the token scanner and the pattern matcher on names, hex runs and fonts of
\* every shape
SpecLiterals == Init /\ [][NextLiterals]_vars

\* const migration = generateMigration({colors, fonts}, target)
GenerateMigrationWith(entries, fonts, target) ==
  /\ op = "none"
  /\ written' = entries
  /\ current' = [colors |-> ObjectLiteral(entries), fonts |-> fonts]
  /\ improved' = target
  /\ migration' = generateMigration([colors |-> ObjectLiteral(entries), fonts |-> fonts], target)
  /\ op' = "generateMigration"
  /\ UNCHANGED <<mcpVars, apiVars, generateVars, tailwindVars, patternVars, projectVars>>

\* calls with up to MaxColors current colors and a complete target
CallGenerateMigrationColors ==
  \E entries \in SyntheticColorEntries \cup ShadeColorEntries :
    GenerateMigrationWith(entries, <<>>, UpgradeTarget)

\* calls with up to MaxFonts current fonts and any target, also an absent one
CallGenerateMigrationFonts ==
  \E entries \in {e \in SyntheticColorEntries : Len(e) <= 1}, fonts \in FontLists,
     target \in Targets :
    GenerateMigrationWith(entries, fonts, target)

NextMigration == CallGenerateMigrationColors \/ CallGenerateMigrationFonts

\* the migration mapper
SpecMigration == Init /\ [][NextMigration]_vars

\* analyzeProject(files), generateUpgrade({files, ...}): the call, up to the loop
CallAnalyzeProject ==
  /\ op = "none"
  /\ files' \in FileLists
  /\ op' = "analyzeProject"
  /\ UNCHANGED <<mcpVars, apiVars, generateVars, tailwindVars, patternVars, migrationVars, position, allColors, allFonts, allIssues,
                 totalScore, fileCount, report, options>>

\* one turn of the loop, for a .css or .scss file
AnalyzeStylesheet ==
  /\ op = "analyzeProject"
  /\ ~report.returned
  /\ position <= Len(files)
  /\ IsCssFile(files[position][1])
  /\ LET content == files[position][2]
         fileScan == scanCSS(content)
         fileAnalysis == analyzeForGenericPatterns(content)
     IN /\ css' = content
        /\ scan' = fileScan
        /\ analysis' = fileAnalysis
        /\ allColors' = FoldColors(allColors, fileScan.colors, 1)
        /\ allFonts' = PushNewFonts(allFonts, fileScan.fonts)
        /\ allIssues' = allIssues \o fileAnalysis.issues
        /\ totalScore' = totalScore + fileAnalysis.score
        /\ fileCount' = fileCount + 1
  /\ position' = position + 1
  /\ UNCHANGED <<mcpVars, apiVars, generateVars, tailwindVars, op, migrationVars, files, report, options>>

\* one turn of the loop, for a Tailwind configuration
AnalyzeTailwindConfig ==
  /\ op = "analyzeProject"
  /\ ~report.returned
  /\ position <= Len(files)
  /\ ~IsCssFile(files[position][1])
  /\ IsTailwindFile(files[position][1])
  /\ LET fileScan == scanTailwindConfig(files[position][2])
     IN /\ allColors' = ObjAssign(allColors, fileScan.colors)
        /\ allFonts' = PushNewFonts(allFonts, fileScan.fonts)
  /\ position' = position + 1
  /\ UNCHANGED <<mcpVars, apiVars, generateVars, tailwindVars, op, patternVars, migrationVars, files, allIssues, totalScore, fileCount,
                 report, options>>

\* one turn of the loop, for any other file
SkipFile ==
  /\ op = "analyzeProject"
  /\ ~report.returned
  /\ position <= Len(files)
  /\ ~IsCssFile(files[position][1])
  /\ ~IsTailwindFile(files[position][1])
  /\ position' = position + 1
  /\ UNCHANGED <<mcpVars, apiVars, generateVars, tailwindVars, op, patternVars, migrationVars, files, allColors, allFonts, allIssues,
                 totalScore, fileCount, report, options>>

\* after the loop: the average, the recommendations, the report
ReturnReport ==
  /\ op = "analyzeProject"
  /\ ~report.returned
  /\ position > Len(files)
  /\ LET avgScore == AvgScore(totalScore, fileCount)
     IN report' = [returned |-> TRUE,
                   currentScore |-> avgScore,
                   issues |-> allIssues,
                   recommendations |-> Recommendations(allIssues, avgScore),
                   extractedTokens |-> [colors |-> allColors, fonts |-> allFonts]]
  /\ UNCHANGED <<mcpVars, apiVars, generateVars, tailwindVars, op, patternVars, migrationVars, files, position, allColors, allFonts,
                 allIssues, totalScore, fileCount, options>>

NextAnalyzeProject ==
  CallAnalyzeProject \/ AnalyzeStylesheet \/ AnalyzeTailwindConfig \/ SkipFile \/ ReturnReport

\* generateUpgrade(options), from the return of its analyzeProject(options.files):
\* the preserved colors and fonts are filtered out and the rest is migrated
UpgradeFromReport ==
  /\ op = "analyzeProject"
  /\ report.returned
  /\ \E o \in OptionsSet :
       LET filteredColors == FilteredColors(report.extractedTokens.colors, o)
           filteredFonts == FilteredFonts(report.extractedTokens.fonts, o)
       IN /\ options' = o
          /\ written' = filteredColors
          /\ current' = [colors |-> filteredColors, fonts |-> filteredFonts]
          /\ improved' = UpgradeTarget
          /\ migration' = generateMigration([colors |-> filteredColors, fonts |-> filteredFonts],
                                            UpgradeTarget)
  /\ op' = "generateUpgrade"
  /\ UNCHANGED <<mcpVars, apiVars, generateVars, tailwindVars, patternVars, files, position, allColors, allFonts, allIssues, totalScore,
                 fileCount, report>>

NextProject == NextAnalyzeProject \/ UpgradeFromReport

\* const result = scanTailwindConfig(config)
CallScanTailwindConfig ==
  /\ op = "none"
  /\ \E choice \in TailwindChoices :
       /\ config' = ConfigOf(choice)
       /\ tailwind' = scanTailwindConfig(ConfigOf(choice))
       /\ loop' = [NoLoop EXCEPT !.phase = "returned", !.colorBlock = ColorBlock(ConfigOf(choice))]
  /\ op' = "scanTailwindConfig"
  /\ UNCHANGED <<mcpVars, apiVars, generateVars, patternVars, migrationVars, projectVars>>

NextTailwind == CallScanTailwindConfig

\* the Tailwind scanner
SpecTailwind == Init /\ [][NextTailwind]_vars

\* scanTailwindConfig(config), up to the brace loop
EnterScanTailwindConfig ==
  /\ op = "none"
  /\ config' \in BraceConfigs
  /\ loop' = IF HasBraceStart(config')
             THEN [NoLoop EXCEPT !.phase = "loop", !.i = BraceStart(config'),
                                 !.end = InitialEnd(BraceStart(config'),
                                                    Len(AfterColors(config')))]
             ELSE [NoLoop EXCEPT !.phase = "after"]
  /\ op' = "scanTailwindConfig"
  /\ UNCHANGED <<mcpVars, apiVars, generateVars, patternVars, migrationVars, projectVars, tailwind>>

\* one turn of the brace loop
BalanceStep ==
  /\ op = "scanTailwindConfig"
  /\ loop.phase = "loop"
  /\ loop.i <= Len(AfterColors(config))
  /\ LET d == DepthAfter(loop.depth, AfterColors(config)[loop.i])
     IN loop' = IF d = 0
                THEN [loop EXCEPT !.phase = "after", !.depth = d, !.end = loop.i,
                                  !.colorBlock = SubSeq(AfterColors(config),
                                                        BraceStart(config) + 1, loop.i - 1)]
                ELSE [loop EXCEPT !.depth = d, !.i = NextIndex(loop.i)]
  /\ UNCHANGED <<mcpVars, apiVars, generateVars, op, patternVars, migrationVars, projectVars, config, tailwind>>

\* the brace loop runs off the end of the text: end is still braceStart
BalanceExhausted ==
  /\ op = "scanTailwindConfig"
  /\ loop.phase = "loop"
  /\ loop.i > Len(AfterColors(config))
  /\ loop' = [loop EXCEPT !.phase = "after",
                          !.colorBlock = SubSeq(AfterColors(config),
                                                BraceStart(config) + 1, loop.end - 1)]
  /\ UNCHANGED <<mcpVars, apiVars, generateVars, op, patternVars, migrationVars, projectVars, config, tailwind>>

\* the rest of the function, from "if (colorBlock)" to the return
ReturnTailwindScan ==
  /\ op = "scanTailwindConfig"
  /\ loop.phase = "after"
  /\ tailwind' = ScanBlocks(config, loop.colorBlock)
  /\ loop' = [loop EXCEPT !.phase = "returned"]
  /\ UNCHANGED <<mcpVars, apiVars, generateVars, op, patternVars, migrationVars, projectVars, config>>

NextBalance == EnterScanTailwindConfig \/ BalanceStep \/ BalanceExhausted \/ ReturnTailwindScan

\* the Tailwind scanner with its brace loop turn by turn; the loop is
\* synchronous code that waits for nothing, so a turn that can be taken is taken
SpecBalance ==
  Init /\ [][NextBalance]_vars /\ WF_vars(BalanceStep) /\ WF_vars(BalanceExhausted)


\* the project analyzer and the upgrade generator
SpecProject == Init /\ [][NextProject]_vars

\* every function that returns a score
SpecScores == Init /\ [][NextPattern \/ NextAnalyzeProject]_vars

\* the function is left by an exception: generateDesignSystem rejects with it,
\* the catch of handleGenerate returns { success: false, error }
Throw(g, message) ==
  [g EXCEPT !.step = AfterThrow(g.step),
            !.errors = Append(g.errors, message),
            !.result = IF op = "generateDesignSystem"
                       THEN [state |-> "rejected", success |-> FALSE, error |-> message]
                       ELSE [state |-> "resolved", success |-> FALSE, error |-> message]]

\* return { files, uniquenessScore, analysis }; handleGenerate: figma is
\* generateFigmaExports(tokens) if tierConfig.figmaExport, and
\* return { success: true, data }
ReturnGenerated(g) ==
  [g EXCEPT !.step = "done",
            !.figma = op # "generateDesignSystem" /\ TierFigmaExport[g.tier],
            !.result = [state |-> "resolved", success |-> TRUE, error |-> "none"]]

\* generateDesignSystem(options), with GEMINI_API_KEY set or not
CallGenerateDesignSystem ==
  /\ op = "none"
  /\ op' = "generateDesignSystem"
  /\ \E framework \in BOOLEAN, key \in BOOLEAN :
       gen' = [NoGeneration EXCEPT !.framework = framework, !.apiKey = key,
                                   !.step = "createClient"]
  /\ UNCHANGED <<mcpVars, apiVars, http, patternVars, migrationVars, projectVars, tailwindVars>>

\* handleGenerate(request), with GEMINI_API_KEY set or not
CallHandleGenerate ==
  /\ op = "none"
  /\ op' = "handleGenerate"
  /\ \E tier \in Tiers, framework \in BOOLEAN, key \in BOOLEAN :
       gen' = [NoGeneration EXCEPT !.tier = tier, !.framework = framework,
                                   !.apiKey = key, !.step = "createClient"]
  /\ UNCHANGED <<mcpVars, apiVars, http, patternVars, migrationVars, projectVars, tailwindVars>>

\* const client = createGeminiClient()
CreateClient ==
  /\ gen.step = "createClient"
  /\ gen' = IF gen.apiKey THEN [gen EXCEPT !.step = NextStep(gen.step)]
            ELSE Throw(gen, "GEMINI_API_KEY not set")
  /\ UNCHANGED <<mcpVars, apiVars, op, http, patternVars, migrationVars, projectVars, tailwindVars>>

\* await client.analyzeBrand(...), generatePalette(...), generateTypography(...),
\* calculateUniquenessScore(...), up to the fetch of generate: generatePalette
\* maps over input.avoid and input.embrace to build its prompt
CallModel ==
  /\ gen.step \in {ModelCalls[i] : i \in DOMAIN ModelCalls}
  /\ http.state # "pending"
  /\ LET called == [gen EXCEPT !.calls = Append(gen.calls, gen.step)]
     IN IF gen.step = "generatePalette" /\ ~gen.analysis.patterns
        THEN /\ gen' = Throw(called, "TypeError")
             /\ http' = http
        ELSE /\ gen' = [called EXCEPT !.requests = Append(gen.requests, gen.step)]
             /\ http' = [NoRequest EXCEPT !.state = "pending"]
  /\ UNCHANGED <<mcpVars, apiVars, op, patternVars, migrationVars, projectVars, tailwindVars>>

\* the promise of fetch rejects: the network failed
FetchRejects ==
  /\ http.state = "pending"
  /\ http' = [NoRequest EXCEPT !.state = "failed"]
  /\ gen' = Throw(gen, "fetch failed")
  /\ UNCHANGED <<mcpVars, apiVars, op, patternVars, migrationVars, projectVars, tailwindVars>>

\* the promise of fetch resolves with a response: the rest of generate, then
\* parseJSON, then the statement after the await in the caller
FetchResolves ==
  /\ http.state = "pending"
  /\ \E response \in Responses :
       LET result == MethodResult(response)
       IN /\ http' = [state |-> "responded", status |-> response.status,
                      json |-> response.json, text |-> response.text]
          /\ gen' = IF result.error # "none" THEN Throw(gen, result.error)
                    ELSE [gen EXCEPT !.step = NextStep(gen.step),
                                     !.analysis = IF gen.step = "analyzeBrand"
                                                  THEN result.value ELSE gen.analysis]
  /\ UNCHANGED <<mcpVars, apiVars, op, patternVars, migrationVars, projectVars, tailwindVars>>

\* generateDesignSystem: generateAllFiles and the return; handleGenerate:
\* generateTokens, generateAllFiles, generateCode, then for a tier without
\* visuals generateFigmaExports and the return. The generators work on
\* whatever the model answered and may throw
BuildFiles ==
  /\ gen.step = "files"
  /\ \E thrown \in BOOLEAN :
       gen' = IF thrown THEN Throw(gen, "TypeError")
              ELSE IF op # "generateDesignSystem" /\ TierVisuals[gen.tier]
              THEN [gen EXCEPT !.step = NextStep(gen.step)]
              ELSE ReturnGenerated(gen)
  /\ UNCHANGED <<mcpVars, apiVars, op, http, patternVars, migrationVars, projectVars, tailwindVars>>

\* handleGenerate: visuals = await generateVisuals({ tokens, style: 'all' }),
\* generateFigmaExports for a tier with figmaExport, and the return
GenerateVisuals ==
  /\ gen.step = "visuals"
  /\ \E thrown \in BOOLEAN :
       gen' = IF thrown THEN Throw(gen, "Error")
              ELSE ReturnGenerated([gen EXCEPT !.visuals = TRUE])
  /\ UNCHANGED <<mcpVars, apiVars, op, http, patternVars, migrationVars, projectVars, tailwindVars>>

NextGenerate ==
  \/ CallGenerateDesignSystem
  \/ CallHandleGenerate
  \/ CreateClient
  \/ CallModel
  \/ FetchRejects
  \/ FetchResolves
  \/ BuildFiles
  \/ GenerateVisuals

\* one design-system generation
SpecGenerate == Init /\ [][NextGenerate]_vars

\* TIER_FEATURES[tier].maxGenerationsPerDay, -1 for unlimited
TierMaxGenerationsPerDay == [free |-> 5, indie |-> 50, team |-> 200, agency |-> 0 - 1]

\* remaining of the unlimited tier
UnlimitedRemaining == 999

\* config.maxGenerationsPerDay === -1 ? 999 : config.maxGenerationsPerDay
Remaining(tier) ==
  IF TierMaxGenerationsPerDay[tier] = 0 - 1 THEN UnlimitedRemaining
  ELSE TierMaxGenerationsPerDay[tier]

\* checkRateLimit allowing one request only
CheckRateLimitCounting(userId, tier) ==
  [userId |-> userId, tier |-> tier, allowed |-> served < 1, remaining |-> Remaining(tier)]

\* export function checkRateLimit(userId, tier), without resetAt
checkRateLimit(userId, tier) ==
  [userId |-> userId, tier |-> tier, allowed |-> TRUE, remaining |-> Remaining(tier)]

\* String.prototype.replace(sub, ''): the first occurrence is removed
removeFirst(s, sub) ==
  IF ~includes(s, sub) THEN s
  ELSE SubSeq(s, 1, indexOf(s, sub) - 1) \o SubSeq(s, indexOf(s, sub) + Len(sub), Len(s))

\* req.headers['x-api-key'] || req.headers['authorization']?.replace('Bearer ', ''),
\* <<>> for undefined and for ''
HeaderApiKey(headers) ==
  IF ObjHas(headers, <<"x","-","a","p","i","-","k","e","y">>) /\ ObjGet(headers, <<"x","-","a","p","i","-","k","e","y">>) # <<>>
  THEN ObjGet(headers, <<"x","-","a","p","i","-","k","e","y">>)
  ELSE IF ObjHas(headers, <<"a","u","t","h","o","r","i","z","a","t","i","o","n">>)
  THEN removeFirst(ObjGet(headers, <<"a","u","t","h","o","r","i","z","a","t","i","o","n">>), <<"B","e","a","r","e","r"," ">>)
  ELSE <<>>

\* { tier: validation.tier, ...req.body }
TierThenBody(body, tier) == ObjAssign(ObjPut(<<>>, <<"t","i","e","r">>, tier), body)

\* { ...req.body, tier: validation.tier }
GenerateRequestOf(body, tier) == ObjPut(ObjAssign(<<>>, body), <<"t","i","e","r">>, tier)

\* the requests the handler may get
MaxRequests == 2

HandlerMethods == {"POST", "GET"}

\* the keys sent to the handler: every beginning with the longest tail, and
\* a known prefix with no tail
HandlerKeys ==
  {beginning \o KeyTail(MaxKeyTail) : beginning \in KeyBeginnings} \cup {<<"n","u","i","_","f","r","e","e","_">>}

HandlerHeaders ==
  {<<>>}
    \cup {<< <<<<"x","-","a","p","i","-","k","e","y">>, key>> >> : key \in HandlerKeys}
    \cup {<< <<<<"a","u","t","h","o","r","i","z","a","t","i","o","n">>, <<"B","e","a","r","e","r"," ">> \o key>> >> : key \in HandlerKeys}

HandlerBodies ==
  {<< <<<<"f","r","a","m","e","w","o","r","k">>, f>> >> : f \in BOOLEAN}
    \cup {<< <<<<"t","i","e","r">>, t>>, <<<<"f","r","a","m","e","w","o","r","k">>, f>> >> : t \in Tiers, f \in BOOLEAN}

Answer(status, error) ==
  [step |-> "answered", status |-> status, error |-> error, visuals |-> FALSE, figma |-> FALSE]

\* const result = await validateApiKey(apiKey)
CallValidateApiKey ==
  /\ op = "none"
  /\ op' = "validateApiKey"
  /\ \E key \in ApiKeys :
       /\ apiKey' = key
       /\ validation' = validateApiKey(key)
  /\ UNCHANGED <<mcpVars, rateLimit, req, handler, served, generateVars, patternVars,
                 migrationVars, projectVars, tailwindVars>>

\* const limit = checkRateLimit(userId, tier)
CallCheckRateLimit ==
  /\ op = "none"
  /\ op' = "checkRateLimit"
  /\ \E userId \in {"user-id", "test-user"}, tier \in Tiers :
       rateLimit' = checkRateLimit(userId, tier)
  /\ UNCHANGED <<mcpVars, apiKey, validation, req, handler, served, generateVars, patternVars,
                 migrationVars, projectVars, tailwindVars>>

\* the handler is called with req, its locals not yet set: the method, the
\* API key of the headers, up to await validateApiKey(apiKey)
HandlerReceives ==
  /\ op \in {"none", "handler"}
  /\ handler.step \in {"idle", "answered"}
  /\ served < MaxRequests
  /\ op' = "handler"
  /\ \E method \in HandlerMethods, headers \in HandlerHeaders, body \in HandlerBodies :
       /\ req' = [method |-> method, headers |-> headers, body |-> body]
       /\ IF method # "POST"
          THEN /\ handler' = Answer(405, "Method not allowed")
               /\ served' = served + 1
               /\ apiKey' = <<>>
          ELSE IF HeaderApiKey(headers) = <<>>
          THEN /\ handler' = Answer(401, "API key required")
               /\ served' = served + 1
               /\ apiKey' = <<>>
          ELSE /\ handler' = [NoHandlerResponse EXCEPT !.step = "validateApiKey"]
               /\ apiKey' = HeaderApiKey(headers)
               /\ UNCHANGED served
  /\ validation' = NoValidation
  /\ rateLimit' = NoRateLimit
  /\ UNCHANGED <<mcpVars, generateVars, patternVars, migrationVars, projectVars, tailwindVars>>

\* validateApiKey resolves: 401, or checkRateLimit: 429, or handleGenerate is
\* called with the tier of the validation, GEMINI_API_KEY set or not
HandlerValidated ==
  /\ handler.step = "validateApiKey"
  /\ validation' = validateApiKey(apiKey)
  /\ IF ~validation'.valid
     THEN /\ handler' = Answer(401, validation'.error)
          /\ served' = served + 1
          /\ UNCHANGED <<mcpVars, rateLimit, gen>>
     ELSE /\ rateLimit' = checkRateLimit("user-id", validation'.tier)
          /\ IF ~rateLimit'.allowed
             THEN /\ handler' = Answer(429, "Rate limit exceeded")
                  /\ served' = served + 1
                  /\ UNCHANGED gen
             ELSE /\ handler' = [handler EXCEPT !.step = "handleGenerate"]
                  /\ \E key \in BOOLEAN :
                       LET request == GenerateRequestOf(req.body, validation'.tier)
                       IN gen' = [NoGeneration EXCEPT
                                    !.tier = ObjGet(request, <<"t","i","e","r">>),
                                    !.framework = ObjGet(request, <<"f","r","a","m","e","w","o","r","k">>),
                                    !.apiKey = key,
                                    !.step = "createClient"]
                  /\ UNCHANGED served
  /\ UNCHANGED <<mcpVars, op, apiKey, req, http, patternVars, migrationVars, projectVars,
                 tailwindVars>>

\* handleGenerate resolves and its locals are gone: 500 with its error, or
\* 200 with its data
HandlerAnswers ==
  /\ handler.step = "handleGenerate"
  /\ gen.step = "done"
  /\ handler' = IF ~gen.result.success THEN Answer(500, gen.result.error)
                ELSE [Answer(200, Absent) EXCEPT !.visuals = gen.visuals,
                                                 !.figma = gen.figma]
  /\ served' = served + 1
  /\ gen' = NoGeneration
  /\ http' = NoRequest
  /\ UNCHANGED <<mcpVars, op, apiKey, validation, rateLimit, req, patternVars, migrationVars,
                 projectVars, tailwindVars>>

\* ------------------------------------------------------------------------
\* The MCP server: main, handleRequest, handleMCPTool
\* ------------------------------------------------------------------------

LF == "\n"

\* the id of the response written by the catch of the listener
Null == "null"

ParseErrorCode == 0 - 32700
MethodNotFoundCode == 0 - 32601

MaxLines == 2

\* a value of interface MCPRequest, as JSON.parse gives it: params is kept as
\* whether it is there, its name and the names of its arguments
Request(id, method) ==
  [id |-> id, method |-> method, hasParams |-> FALSE, name |-> Absent, arguments |-> {}]

ToolCall(id, name, arguments) ==
  [id |-> id, method |-> "tools/call", hasParams |-> TRUE, name |-> name, arguments |-> arguments]

\* JSON.parse on the request texts a client sends in this model; any other
\* text is a SyntaxError
McpRequests ==
  << <<<<"{","\"","i","d","\"",":","1",",","\"","m","e","t","h","o","d","\"",":","\"","i","n","i","t","i","a","l","i","z","e","\"","}">>, Request("1", "initialize")>>,
     <<<<"{","\"","i","d","\"",":","2",",","\"","m","e","t","h","o","d","\"",":","\"","t","o","o","l","s","/","c","a","l","l","\"",",","\"","p","a","r","a","m","s","\"",":","{","\"","n","a","m","e","\"",":","\"","n","a","n","o","_","u","i","_","p","a","l","e","t","t","e","\"","}","}">>, ToolCall("2", "nano_ui_palette", {})>>,
     <<<<"{","\"","i","d","\"",":","3",",","\"","m","e","t","h","o","d","\"",":","\"","t","o","o","l","s","/","c","a","l","l","\"","}">>, Request("3", "tools/call")>>,
     <<<<"{","\"","i","d","\"",":","4",",","\"","m","e","t","h","o","d","\"",":","\"","n","o","p","e","\"","}">>, Request("4", "nope")>>,
     <<<<"{","\"","i","d","\"",":","5",",","\"","m","e","t","h","o","d","\"",":","\"","t","o","o","l","s","/","l","i","s","t","\"","}">>, Request("5", "tools/list")>> >>

\* the lines of the input: the requests above, a line that is no JSON and a
\* line of spaces
McpLines ==
  [k \in DOMAIN McpRequests |-> McpRequests[k][1]] \o << <<"o","o","p","s">>, <<" "," ">> >>

\* JSON.parse(line): leading and trailing whitespace is allowed
JSONparse(line) ==
  IF ObjHas(McpRequests, trim(line))
  THEN [ok |-> TRUE, value |-> ObjGet(McpRequests, trim(line))]
  ELSE [ok |-> FALSE, value |-> Request(Absent, Absent)]

\* buffer.split('\n')
RECURSIVE splitLines(_)
splitLines(s) ==
  LET p == indexOf(s, <<LF>>)
  IN IF p = 0 THEN <<s>>
     ELSE <<SubSeq(s, 1, p - 1)>> \o splitLines(SubSeq(s, p + 1, Len(s)))

\* a response object: result and error are Absent when the object has none
ResultResponse(id, result, isError) ==
  [jsonrpc |-> "2.0", id |-> id, result |-> result, isError |-> isError,
   code |-> 0, message |-> Absent]

ErrorResponse(id, code, message) ==
  [jsonrpc |-> "2.0", id |-> id, result |-> Absent, isError |-> FALSE,
   code |-> code, message |-> message]

\* handleMCPTool(toolName, args) up to its first wait for the network: io
\* tells that it waits; otherwise isError is that of the MCPResponse returned.
\* handleGenerate reads args.personality.split and args.competitors.split and,
\* as handlePalette, creates the client, which throws without a key; every
\* throw is caught and returned as an MCPResponse with isError
handleMCPTool(toolName, args, keySet) ==
  CASE toolName = "nano_ui_status" -> [io |-> FALSE, isError |-> FALSE]
    [] toolName = "nano_ui_generate" ->
         IF ~({"personality", "competitors"} \subseteq args) THEN [io |-> FALSE, isError |-> TRUE]
         ELSE IF ~keySet THEN [io |-> FALSE, isError |-> TRUE]
         ELSE [io |-> TRUE, isError |-> FALSE]
    [] toolName = "nano_ui_palette" ->
         IF ~keySet THEN [io |-> FALSE, isError |-> TRUE]
         ELSE [io |-> TRUE, isError |-> FALSE]
    [] toolName = "nano_ui_review" -> [io |-> FALSE, isError |-> FALSE]
    [] OTHER -> [io |-> FALSE, isError |-> TRUE]

\* handleRequest(request) up to its first wait for the network: throws tells
\* that the promise is rejected, io that it waits for the tool
handleRequest(request, keySet) ==
  LET returns(response) == [throws |-> FALSE, io |-> FALSE, response |-> response]
  IN CASE request.method = "initialize" ->
            returns(ResultResponse(request.id, "initialize", FALSE))
       [] request.method = "tools/list" ->
            returns(ResultResponse(request.id, "tools/list", FALSE))
       [] request.method = "tools/call" ->
            IF ~request.hasParams
            THEN [throws |-> TRUE, io |-> FALSE,
                  response |-> ErrorResponse(Null, 0, "TypeError")]
            ELSE LET result == handleMCPTool(request.name, request.arguments, keySet)
                 IN IF result.io
                    THEN [throws |-> FALSE, io |-> TRUE,
                          response |-> ResultResponse(request.id, "tools/call", FALSE)]
                    ELSE returns(ResultResponse(request.id, "tools/call", result.isError))
       [] request.method = "prompts/list" ->
            returns(ResultResponse(request.id, "prompts/list", FALSE))
       [] OTHER ->
            returns(ErrorResponse(request.id, MethodNotFoundCode, "Method not found"))

\* the errorResponse of the catch of the listener
ParseErrorResponse == ErrorResponse(Null, ParseErrorCode, "Parse error")

\* the inputs: up to MaxLines different lines, each ended by a line feed
McpInputs ==
  UNION {{ConcatAll([i \in 1..n |-> McpLines[pick[i]] \o <<LF>>]) :
            pick \in {f \in [1..n -> DOMAIN McpLines] :
                        \A i, j \in 1..n : i # j => f[i] # f[j]}} : n \in 0..MaxLines}

\* where a chunk of the input may end: at a line feed, right before one, or
\* at the end of the input
ChunkEnds(text) ==
  {p \in DOMAIN text : text[p] = LF \/ p = Len(text) \/ text[p + 1] = LF}

\* main()
Main ==
  /\ mcp.state = "idle"
  /\ \E input \in McpInputs, keySet \in BOOLEAN :
       /\ stdin' = input
       /\ mcp' = [state |-> "listening", keySet |-> keySet, received |-> <<>>]
  /\ buffer' = <<>>
  /\ listeners' = <<>>
  /\ stdout' = <<>>
  /\ UNCHANGED <<apiVars, generateVars, tailwindVars, op, patternVars, migrationVars, projectVars>>

\* no call of the listener is between two waits for the network: the event
\* loop takes the next event
EventLoopIdle == \A h \in DOMAIN listeners : listeners[h].state # "running"

\* stdin.on('data', ...): a chunk arrives and the listener runs up to the for
\* loop; each line is kept with its number in the order of arrival
DataArrives ==
  /\ mcp.state = "listening"
  /\ EventLoopIdle
  /\ \E end \in ChunkEnds(stdin) :
       LET chunk == SubSeq(stdin, 1, end)
           split == splitLines(buffer \o chunk)
           lines == [k \in 1..(Len(split) - 1) |->
                       [text |-> split[k], number |-> Len(mcp.received) + k]]
       IN /\ stdin' = SubSeq(stdin, end + 1, Len(stdin))
          /\ buffer' = split[Len(split)]
          /\ listeners' = Append(listeners,
                                 [lines |-> lines,
                                  state |-> IF lines = <<>> THEN "done" ELSE "running"])
          /\ mcp' = [mcp EXCEPT !.received = @ \o SubSeq(split, 1, Len(split) - 1)]
  /\ UNCHANGED <<stdout, apiVars, generateVars, tailwindVars, op, patternVars, migrationVars, projectVars>>

\* the listener h after the line at the head of its lines
NextLine(h) ==
  [listeners EXCEPT ![h] = [lines |-> Tail(@.lines),
                            state |-> IF Tail(@.lines) = <<>> THEN "done" ELSE "running"]]

\* stdout.write(JSON.stringify(response) + '\n') for the line of this number
Written(response, number) == Append(stdout, [response |-> response, line |-> number])

\* one turn of the for loop of a call of the listener, up to the write or to
\* the wait for the network
ListenerHandlesLine ==
  /\ mcp.state = "listening"
  /\ \E h \in DOMAIN listeners :
       /\ listeners[h].state = "running"
       /\ LET line == Head(listeners[h].lines)
              parsed == JSONparse(line.text)
              handled == handleRequest(parsed.value, mcp.keySet)
          IN IF trim(line.text) = <<>>
             THEN /\ listeners' = NextLine(h)
                  /\ UNCHANGED stdout
             ELSE IF ~parsed.ok \/ handled.throws
             THEN /\ listeners' = NextLine(h)
                  /\ stdout' = Written(ParseErrorResponse, line.number)
             ELSE IF handled.io
             THEN /\ listeners' = [listeners EXCEPT ![h].state = "awaiting"]
                  /\ UNCHANGED stdout
             ELSE /\ listeners' = NextLine(h)
                  /\ stdout' = Written(handled.response, line.number)
  /\ UNCHANGED <<mcp, stdin, buffer, apiVars, generateVars, tailwindVars, op, patternVars, migrationVars, projectVars>>

\* the network answers a waiting tool call, or fails: handleMCPTool returns
\* an MCPResponse either way and the listener writes the response
ToolCallSettles ==
  /\ mcp.state = "listening"
  /\ EventLoopIdle
  /\ \E h \in DOMAIN listeners, failed \in BOOLEAN :
       /\ listeners[h].state = "awaiting"
       /\ LET line == Head(listeners[h].lines)
              request == JSONparse(line.text).value
          IN stdout' = Written(ResultResponse(request.id, "tools/call", failed), line.number)
       /\ listeners' = NextLine(h)
  /\ UNCHANGED <<mcp, stdin, buffer, apiVars, generateVars, tailwindVars, op, patternVars, migrationVars, projectVars>>

\* stdin.on('end', ...): process.exit(0)
StdinEnds ==
  /\ mcp.state = "listening"
  /\ EventLoopIdle
  /\ stdin = <<>>
  /\ mcp' = [mcp EXCEPT !.state = "exited"]
  /\ UNCHANGED <<stdin, buffer, listeners, stdout, apiVars, generateVars, tailwindVars, op, patternVars, migrationVars, projectVars>>

NextMcp == Main \/ DataArrives \/ ListenerHandlesLine \/ ToolCallSettles \/ StdinEnds

\* the MCP server loop
SpecMcp == Init /\ [][NextMcp]_vars

\* validateApiKey
SpecKeys == Init /\ [][CallValidateApiKey]_vars

NextHandler ==
  \/ CallCheckRateLimit
  \/ HandlerReceives
  \/ HandlerValidated
  \/ HandlerAnswers
  \/ CreateClient
  \/ CallModel
  \/ FetchRejects
  \/ FetchResolves
  \/ BuildFiles
  \/ GenerateVisuals

\* checkRateLimit and the handler of createHandler
SpecHandler == Init /\ [][NextHandler]_vars

Next ==
  \/ NextPattern \/ NextLiterals \/ NextMigration \/ NextProject
  \/ NextTailwind \/ NextBalance \/ NextGenerate
  \/ CallValidateApiKey \/ NextHandler \/ NextMcp

Spec == Init /\ [][Next]_vars

\* ------------------------------------------------------------------------
\* Properties of the token scanner and the pattern matcher
\* ------------------------------------------------------------------------

GenericColorSet == {GENERIC_COLORS[i] : i \in DOMAIN GENERIC_COLORS}

\* the positions of the issues of one type
IssuesOfType(issues, type) == {k \in DOMAIN issues : issues[k].type = type}

\* analyzeForGenericPatterns has returned
Analyzed == op = "analyzeForGenericPatterns"

\* the positions of text where a reference generic color is written as a whole
\* hex literal, in either case
GenericLiteralPositions(text) ==
  {i \in DOMAIN text :
     /\ text[i] = "#"
     /\ \E g \in GenericColorSet :
          /\ i + Len(g) - 1 <= Len(text)
          /\ toLowerCase(SubSeq(text, i, i + Len(g) - 1)) = g
          /\ (i + Len(g) <= Len(text) => text[i + Len(g)] \notin HexDigitChars)}

\* the reference generic color written at position i of text
GenericLiteralAt(text, i) ==
  CHOOSE g \in GenericColorSet :
    i + Len(g) - 1 <= Len(text) /\ toLowerCase(SubSeq(text, i, i + Len(g) - 1)) = g

\* the entries of a color sequence that equal a reference generic color
GenericEntries(colors) == {k \in DOMAIN colors : colors[k] \in GenericColorSet}

\* the fonts of a font list that contain a reference generic font substring
GenericFontEntries(fonts) ==
  {k \in DOMAIN fonts :
     \E i \in DOMAIN GENERIC_FONTS :
        includes(toLowerCase(fonts[k]), toLowerCase(GENERIC_FONTS[i]))}

\* the text holds exactly one reference generic color, exactly once
OneGenericColorOnce == Analyzed /\ Cardinality(GenericLiteralPositions(css)) = 1

\* exactly one generic-color issue, of severity high, whose value is the one
\* generic color of the text in lowercase
OneGenericColorIssue ==
  LET at == CHOOSE i \in GenericLiteralPositions(css) : TRUE
      found == IssuesOfType(analysis.issues, "generic-color")
  IN /\ Cardinality(found) = 1
     /\ \A k \in found :
          /\ analysis.issues[k].severity = "high"
          /\ analysis.issues[k].value = GenericLiteralAt(css, at)

\* C1 as stated: a text that contains exactly one reference generic color
\* exactly once is scored exactly 85 and has exactly one generic-color issue, of
\* severity high, whose value is that color in lowercase.
C1_ScoreIs85 ==
  OneGenericColorOnce => analysis.score = 85 /\ OneGenericColorIssue

\* C1 (amended): a text that contains exactly one reference generic color
\* exactly once has exactly one generic-color issue, of severity high, whose
\* value is that color in lowercase; its score is 85 less 10 for every scanned
\* font that contains a generic font substring and less 10 when fewer than
\* three colors were scanned, and not below 0.
C1_OneGenericColor ==
  OneGenericColorOnce =>
    /\ OneGenericColorIssue
    /\ analysis.score =
         Max(0, 85 - 10 * Cardinality(GenericFontEntries(scan.fonts))
                   - (IF Len(scan.colors) < 3 THEN 10 ELSE 0))

\* C1 witness: one generic color among three colors and no generic font: 85
C1_Witness ==
  /\ OneGenericColorOnce
  /\ Len(scan.colors) >= 3
  /\ GenericFontEntries(scan.fonts) = {}
  /\ analysis.score = 85

\* C2: score = max(0, 100 - 15 G - 10 N - 10 B), with G the entries of the
\* scanned colors (duplicates counted) that equal a reference generic color, N
\* the scanned fonts that contain a generic font substring in any case, and
\* B = 1 exactly when a bland-palette issue is emitted; and there are exactly G
\* generic-color issues and exactly N generic-font issues.
C2_ScoreFormula ==
  Analyzed =>
    LET G == Cardinality(GenericEntries(scan.colors))
        N == Cardinality(GenericFontEntries(scan.fonts))
        B == IF IssuesOfType(analysis.issues, "bland-palette") # {} THEN 1 ELSE 0
    IN /\ analysis.score = Max(0, 100 - 15 * G - 10 * N - 10 * B)
       /\ Cardinality(IssuesOfType(analysis.issues, "generic-color")) = G
       /\ Cardinality(IssuesOfType(analysis.issues, "generic-font")) = N

\* C2 witness: a text with a repeated generic color, a generic font and a
\* bland palette
C2_Witness ==
  /\ Analyzed
  /\ Cardinality(GenericEntries(scan.colors)) = 2
  /\ Cardinality({scan.colors[k] : k \in DOMAIN scan.colors}) = 1
  /\ Cardinality(GenericFontEntries(scan.fonts)) = 1
  /\ IssuesOfType(analysis.issues, "bland-palette") # {}
  /\ analysis.score = 50

\* the number of distinct colors found in the text
DistinctColors == Cardinality({scan.colors[k] : k \in DOMAIN scan.colors})

\* C4 as stated: exactly one bland-palette issue (severity medium) when the
\* number of distinct colors found is 1 or 2, and none when it is 0 or at
\* least 3.
C4_BlandPaletteByDistinctColors ==
  Analyzed =>
    LET bland == IssuesOfType(analysis.issues, "bland-palette")
    IN /\ DistinctColors \in {1, 2} =>
            /\ Cardinality(bland) = 1
            /\ \A k \in bland : analysis.issues[k].severity = "medium"
       /\ DistinctColors \notin {1, 2} => bland = {}

\* ------------------------------------------------------------------------
\* Properties of the migration mapper
\* ------------------------------------------------------------------------

\* generateMigration was called
Migrated == op = "generateMigration"

\* generateMigration has returned a Migration
Returned == Migrated /\ migration.error = "none"

\* the target is absent or empty
AbsentOrEmptyTarget == improved.kind = "undefined" \/ improved = EmptyObject

\* C6 as stated: generateMigration never fails; for every current token set
\* and every target, also an absent or empty one, it returns a Migration, and
\* with an absent or empty target the three mappings are empty.
C6_NeverFails ==
  Migrated =>
    /\ migration.error = "none"
    /\ AbsentOrEmptyTarget =>
         /\ migration.colorMappings = <<>>
         /\ migration.fontMappings = <<>>
         /\ migration.cssReplacements = <<>>

\* the `from` values of the replacement directives
ReplacementSources == {migration.cssReplacements[k].from : k \in DOMAIN migration.cssReplacements}

\* the positions of the written colors that equal a reference generic color in
\* any case
GenericWritten == {i \in DOMAIN written : toLowerCase(written[i][2]) \in GenericColorSet}

\* the target value of the role at 0-based position i, rotating over the roles
RoleValue(i) == ObjGet(improved.colors, ROLES[(i % 6) + 1])

\* a directive pairs the color written at position i with the role of index n
PairedWithRole(i, n) ==
  \E k \in DOMAIN migration.cssReplacements :
     /\ migration.cssReplacements[k].from = toLowerCase(written[i][2])
     /\ migration.cssReplacements[k].to = RoleValue(n)

\* values that match no reference generic color give no mapping, no directive
UnmatchedColorsUntouched ==
  \A i \in DOMAIN written \ GenericWritten :
     /\ toLowerCase(written[i][2]) \notin ReplacementSources
     /\ ~ObjHas(migration.colorMappings, toLowerCase(written[i][2]))
     /\ written[i][2] \notin ReplacementSources
     /\ ~ObjHas(migration.colorMappings, written[i][2])

\* C7 as stated: the generic color at 0-based position i of the insertion
\* order of the current colors is paired in cssReplacements with the target
\* value of ROLES[i mod 6]; unmatched values give no mapping, no replacement.
C7_RoleByInsertionOrder ==
  Returned =>
    /\ \A i \in GenericWritten : PairedWithRole(i, i - 1)
    /\ UnmatchedColorsUntouched

\* the property written at position j is enumerated before the one at i:
\* array-index keys first, ascending, then the other keys as written
EnumeratedBefore(j, i) ==
  LET a == written[j][1]
      b == written[i][1]
  IN \/ IsArrayIndex(a) /\ ~IsArrayIndex(b)
     \/ IsArrayIndex(a) /\ IsArrayIndex(b) /\ NumLess(a, b)
     \/ ~IsArrayIndex(a) /\ ~IsArrayIndex(b) /\ j < i

\* the 0-based position of the written property i in Object.values order
EnumerationIndex(i) == Cardinality({j \in DOMAIN written : EnumeratedBefore(j, i)})

\* C7 (amended): the generic color at 0-based position i of the enumeration
\* order of the current colors (Object.values: integer-like keys first, in
\* ascending order, then the other keys in insertion order; all values are
\* counted, matched or not) is paired in cssReplacements with the target value
\* of ROLES[i mod 6], one directive per such position; unmatched values give no
\* mapping and no replacement.
C7_RoleByEnumerationOrder ==
  Returned =>
    /\ \A i \in GenericWritten : PairedWithRole(i, EnumerationIndex(i))
    /\ Cardinality({k \in DOMAIN migration.cssReplacements :
                      migration.cssReplacements[k].from[1] = "#"})
         = Cardinality(GenericWritten)
    /\ UnmatchedColorsUntouched

\* C7 witness: seven colors, an unmatched one among the first six and a
\* generic one at position 6, which rotates back to the first role
C7_Witness ==
  /\ Returned
  /\ Len(written) = 7
  /\ 7 \in GenericWritten
  /\ (1..6) \ GenericWritten # {}
  /\ migration.cssReplacements[Len(migration.cssReplacements)].to = RoleValue(0)

GenericCurrentFonts ==
  {current.fonts[k] : k \in GenericFontEntries(current.fonts)}

\* C9: every current font that contains a reference generic font substring (in
\* any case) is mapped to the body family of the target, never to its display
\* family, in fontMappings and in its cssReplacements entries; the other fonts
\* are not mapped.
C9_FontsMapToBodyFamily ==
  Returned =>
    /\ \A f \in GenericCurrentFonts :
         /\ ObjHas(migration.fontMappings, f)
         /\ ObjGet(migration.fontMappings, f) = improved.body
         /\ \E k \in DOMAIN migration.cssReplacements :
               migration.cssReplacements[k].from = f
         /\ \A k \in DOMAIN migration.cssReplacements :
               migration.cssReplacements[k].from = f =>
                 migration.cssReplacements[k].to = improved.body
    /\ \A k \in DOMAIN migration.fontMappings :
         /\ migration.fontMappings[k][1] \in GenericCurrentFonts
         /\ improved.display # improved.body => migration.fontMappings[k][2] # improved.display

\* C9 witness: a generic and a characterful current font, a body family that
\* differs from the display family
C9_Witness ==
  /\ Returned
  /\ GenericCurrentFonts # {}
  /\ \E k \in DOMAIN current.fonts : current.fonts[k] \notin GenericCurrentFonts
  /\ improved.display # improved.body

\* ------------------------------------------------------------------------
\* Properties of the project analyzer and the upgrade generator
\* ------------------------------------------------------------------------

\* analyzeProject has returned
Reported == report.returned

\* generateUpgrade has returned
Upgraded == op = "generateUpgrade"

\* C3: no key of the colorMappings of generateUpgrade is a color that is written
\* in preserveColors, whether the color came from a stylesheet or from a
\* Tailwind configuration
C3_PreservedColorsNeverMapped ==
  Upgraded /\ options.hasPreserveColors =>
    \A k \in DOMAIN migration.colorMappings :
      ~arrayIncludes(options.preserveColors, migration.colorMappings[k][1])

\* C5: every score is an integer from 0 to 100: the score of
\* analyzeForGenericPatterns, also per file inside analyzeProject, and the
\* currentScore of analyzeProject
C5_ScoresInRange ==
  /\ analysis.score \in 0..100
  /\ Reported => report.currentScore \in 0..100

\* a text with so many generic colors that the penalties exceed the start score
C5_Witness ==
  /\ Analyzed
  /\ Cardinality(IssuesOfType(analysis.issues, "generic-color")) * GenericColorPenalty > StartScore
  /\ analysis.score = 0

\* the analyzeForGenericPatterns scores of the .css and .scss files, in order
RECURSIVE StylesheetScores(_, _)
StylesheetScores(fs, k) ==
  IF k > Len(fs) THEN <<>>
  ELSE (IF IsCssFile(fs[k][1])
        THEN <<analyzeForGenericPatterns(fs[k][2]).score>> ELSE <<>>)
       \o StylesheetScores(fs, k + 1)

RECURSIVE SumOf(_, _)
SumOf(s, k) == IF k > Len(s) THEN 0 ELSE s[k] + SumOf(s, k + 1)

\* r is the mean of the scores s rounded to the nearest integer, halves up:
\* r - 1/2 <= sum / n < r + 1/2
IsMeanRoundedHalfUp(r, s) ==
  LET n == Len(s)
      sum == SumOf(s, 1)
  IN /\ 2 * n * r <= 2 * sum + n
     /\ 2 * sum + n < 2 * n * (r + 1)

\* C10: currentScore is the mean of the scores of the .css and .scss files,
\* rounded to the nearest integer with halves up; 50 when there is none; the
\* score of the file when there is one; no other file changes it
C10_CurrentScoreIsRoundedMean ==
  Reported =>
    LET s == StylesheetScores(files, 1)
    IN /\ Len(s) = 0 => report.currentScore = 50
       /\ Len(s) > 0 => IsMeanRoundedHalfUp(report.currentScore, s)
       /\ Len(s) = 1 => report.currentScore = s[1]

\* two stylesheets whose mean score is a half
C10_Witness ==
  /\ Reported
  /\ fileCount = 2
  /\ totalScore % 2 = 1
  /\ 2 * report.currentScore = totalScore + 1

\* the number of times a text is among the recommendations
TimesRecommended(text) ==
  Cardinality({k \in DOMAIN report.recommendations : report.recommendations[k] = text})

\* the report has an issue of the type
HasIssue(type) == IssuesOfType(report.issues, type) # {}

\* C11: the generic-color recommendation is there exactly when an issue is a
\* generic color, the generic-font recommendation exactly when an issue is a
\* generic font, the regenerate recommendation exactly when currentScore < 60;
\* each at most once and nothing else
C11_RecommendationsByThreeChecks ==
  Reported =>
    /\ TimesRecommended(ReplaceColorsText) = (IF HasIssue("generic-color") THEN 1 ELSE 0)
    /\ TimesRecommended(CharacterfulFontsText) = (IF HasIssue("generic-font") THEN 1 ELSE 0)
    /\ TimesRecommended(RegenerateText) = (IF report.currentScore < 60 THEN 1 ELSE 0)
    /\ \A k \in DOMAIN report.recommendations :
         report.recommendations[k] \in {ReplaceColorsText, CharacterfulFontsText, RegenerateText}

\* the recommendations are exactly the chosen ones of the three
RecommendationSubset(color, font, regenerate) ==
  /\ Reported
  /\ TimesRecommended(ReplaceColorsText) = (IF color THEN 1 ELSE 0)
  /\ TimesRecommended(CharacterfulFontsText) = (IF font THEN 1 ELSE 0)
  /\ TimesRecommended(RegenerateText) = (IF regenerate THEN 1 ELSE 0)

\* stylesheets with generic fonts and a low score but no generic color
C11_Witness == fileCount > 0 /\ RecommendationSubset(FALSE, TRUE, TRUE)

\* ------------------------------------------------------------------------
\* Properties of the token scanner and the pattern matcher on LiteralChoices
\* ------------------------------------------------------------------------

\* a '#' at position i of text is followed by at least three hex digits
HexLiteralAt(text, i) ==
  /\ text[i] = "#"
  /\ i + 3 <= Len(text)
  /\ \A j \in 1..3 : text[i + j] \in HexDigitChars

HasHexLiteral(text) == \E i \in DOMAIN text : HexLiteralAt(text, i)

\* the name of a reference generic font occurs in text, in any letter case
HasGenericFontSubstring(text) ==
  \E g \in DOMAIN GENERIC_FONTS : includes(toLowerCase(text), toLowerCase(GENERIC_FONTS[g]))

RECURSIVE StylesheetColors(_, _)
StylesheetColors(fs, k) ==
  IF k > Len(fs) THEN <<>>
  ELSE (IF IsCssFile(fs[k][1]) THEN scanCSS(fs[k][2]).colors ELSE <<>>)
       \o StylesheetColors(fs, k + 1)

\* C13: the k-th color folded from the stylesheets, counted from 0 across all
\* of them, is in extractedTokens.colors under the key color-k, also when
\* Tailwind configurations are among the files
C13_KthColorUnderColorK ==
  Reported =>
    LET folded == StylesheetColors(files, 1)
    IN \A k \in DOMAIN folded :
         /\ ObjHas(report.extractedTokens.colors, SyntheticKey(k))
         /\ ObjGet(report.extractedTokens.colors, SyntheticKey(k)) = folded[k]

\* scanCSS has run on css: scan is its result
Scanned == op \in {"scanCSS", "analyzeForGenericPatterns"}

\* the number of hex digits that follow position i of text
HexRunAfter(text, i) ==
  LET ends == {j \in i..Len(text) : \A m \in (i + 1)..j : text[m] \in HexDigitChars}
  IN Cardinality(ends) - 1

\* the hex literals of text: a '#' and the 3, 4, 6 or 8 hex digits after it
HexLiterals(text) ==
  {SubSeq(text, i, i + HexRunAfter(text, i)) :
     i \in {p \in DOMAIN text : text[p] = "#" /\ HexRunAfter(text, p) \in {3, 4, 6, 8}}}

ColorPrimaryDeclaration == <<"-","-","c","o","l","o","r","-","p","r","i","m","a","r","y",":"," ","#","3","b","8","2","f","6",";">>
FontSansDeclaration == <<"-","-","f","o","n","t","-","s","a","n","s",":"," ","I","n","t","e","r",","," ","s","y","s","t","e","m","-","u","i",";">>

\* C14: every hex literal of the text, declared in a custom property or used
\* inline, is among the colors in lower case; every color is in lower case; a
\* text with --color-primary: #3b82f6; and --font-sans: Inter, system-ui; has
\* #3b82f6 among the colors and Inter among the fonts
C14_HexLiteralsCollectedLowercase ==
  Scanned =>
    /\ \A h \in HexLiterals(css) : arrayIncludes(scan.colors, toLowerCase(h))
    /\ \A k \in DOMAIN scan.colors : scan.colors[k] = toLowerCase(scan.colors[k])
    /\ includes(css, ColorPrimaryDeclaration) /\ includes(css, FontSansDeclaration) =>
         /\ arrayIncludes(scan.colors, <<"#","3","b","8","2","f","6">>)
         /\ arrayIncludes(scan.fonts, <<"I","n","t","e","r">>)

\* the two declarations together with a hex literal written in upper case
C14_Witness ==
  /\ op = "scanCSS"
  /\ includes(css, ColorPrimaryDeclaration)
  /\ includes(css, FontSansDeclaration)
  /\ \E h \in HexLiterals(css) : h # toLowerCase(h) /\ arrayIncludes(scan.colors, toLowerCase(h))

\* C15: every color of scanCSS is a '#' followed by exactly 3, 4, 6 or 8 hex
\* digits; a '#' with a run of 5 or 7 hex digits is never returned
C15_ColorsHaveValidLength ==
  Scanned =>
    \A k \in DOMAIN scan.colors :
      /\ scan.colors[k][1] = "#"
      /\ Len(scan.colors[k]) - 1 \in {3, 4, 6, 8}
      /\ \A m \in 2..Len(scan.colors[k]) : scan.colors[k][m] \in HexDigitChars

\* the custom-property declarations of text, as scanCSS finds them
Declarations(text) == VarMatchesFrom(text, 1)

\* "font" or "family" is in the name, in any letter case
NamesFont(name) ==
  \/ includes(toLowerCase(name), <<"f","o","n","t">>)
  \/ includes(toLowerCase(name), <<"f","a","m","i","l","y">>)

\* C16: the font names of every custom property whose name contains "font" or
\* "family" in any letter case are among the fonts: --Font-Sans: Inter; and
\* --FONT-FAMILY: Inter; give Inter as --font-sans: Inter; does
C16_FontNamesCaseInsensitive ==
  Scanned =>
    \A d \in DOMAIN Declarations(css) :
      NamesFont(Declarations(css)[d].name) =>
        LET named == AddFonts(<<>>, FontMatches(Declarations(css)[d].value), 1)
        IN \A k \in DOMAIN named : arrayIncludes(scan.fonts, named[k])

\* ------------------------------------------------------------------------
\* Properties of the Tailwind scanner
\* ------------------------------------------------------------------------

\* scanTailwindConfig has returned
TailwindScanned == op = "scanTailwindConfig" /\ loop.phase = "returned"

\* the brace loop turn by turn gives what the scanner gives in one piece
BraceLoopAgrees == TailwindScanned => tailwind = scanTailwindConfig(config)

\* a word starts at position p of s
WordStartsAt(s, p) == s[p] \in WordChars /\ (p = 1 \/ s[p - 1] \notin WordChars)

\* the position after the word at p, its colon and the blanks that follow
AfterName(s, p) ==
  LET c == p + RunLen(s, p, WordChars)
  IN IF c <= Len(s) /\ s[c] = ":" THEN c + 1 + RunLen(s, c + 1, SpaceChars) ELSE 0

\* the position of the '#' of the hex value that the entry at p has; 0 when
\* position p does not start an entry "name: hex"
HexOfEntry(s, p) ==
  LET v == AfterName(s, p)
      h == IF v # 0 /\ v <= Len(s) /\ s[v] \in QuoteChars THEN v + 1 ELSE v
  IN IF WordStartsAt(s, p) /\ v # 0 /\ h <= Len(s) /\ s[h] = "#"
        /\ RunLen(s, h + 1, HexDigitChars) \in 3..8
     THEN h ELSE 0

EntryName(s, p) == SubSeq(s, p, p + RunLen(s, p, WordChars) - 1)

EntryValue(s, p) ==
  SubSeq(s, HexOfEntry(s, p), HexOfEntry(s, p) + RunLen(s, HexOfEntry(s, p) + 1, HexDigitChars))

\* the number of braces open at position p of s
OpenBraces(s, p) ==
  Cardinality({k \in 1..(p - 1) : s[k] = "{"}) - Cardinality({k \in 1..(p - 1) : s[k] = "}"})

\* position p starts a nested group "name: {"
GroupStartsAt(s, p) ==
  /\ WordStartsAt(s, p)
  /\ AfterName(s, p) # 0
  /\ AfterName(s, p) <= Len(s)
  /\ s[AfterName(s, p)] = "{"

\* the names of the nested groups of s
GroupNames(s) == {EntryName(s, p) : p \in {q \in DOMAIN s : GroupStartsAt(s, q)}}

\* the group that position p of s is in: the last group opened before p
GroupOf(s, p) ==
  EntryName(s, CHOOSE g \in 1..p : /\ GroupStartsAt(s, g)
                                   /\ AfterName(s, g) < p
                                   /\ \A q \in (g + 1)..p :
                                        ~(GroupStartsAt(s, q) /\ AfterName(s, q) < p))

\* the keys and values that the entries of a colors block stand for
ExpectedColors(block) ==
  LET entries == {p \in DOMAIN block : HexOfEntry(block, p) # 0}
  IN {<<EntryName(block, p), EntryValue(block, p)>> :
        p \in {q \in entries : OpenBraces(block, q) = 0
                               /\ EntryName(block, q) \notin GroupNames(block)}}
     \cup
     {<<GroupOf(block, p) \o <<"-">> \o EntryName(block, p), EntryValue(block, p)>> :
        p \in {q \in entries : OpenBraces(block, q) = 1}}

\* every brace of the block is closed and no group is inside a group
GroupsAndEntriesOnly(block) ==
  /\ \A p \in DOMAIN block : OpenBraces(block, p) \in {0, 1}
  /\ OpenBraces(block, Len(block) + 1) = 0
  /\ \A p \in DOMAIN block : block[p] = "{" => \E g \in 1..p : GroupStartsAt(block, g)
                                                              /\ AfterName(block, g) = p

\* C17: for a colors block of nested groups and flat entries the colors are
\* exactly name-shade for every nested shade and name for every flat entry
\* whose name is not the name of a group; no nested shade is also under the
\* shade alone
C17_OneKeyPerHexEntry ==
  TailwindScanned /\ loop.colorBlock # <<>> /\ GroupsAndEntriesOnly(loop.colorBlock) =>
    {tailwind.colors[k] : k \in DOMAIN tailwind.colors} = ExpectedColors(loop.colorBlock)

\* the text inside the first fontFamily: { ... }, empty when there is none
FontFamilyBlock == IF FontBlock(config).found THEN FontBlock(config).block ELSE <<>>

\* a quoted name of letters and spaces starts at position p of s
QuotedNameAt(s, p) ==
  /\ s[p] \in QuoteChars
  /\ RunLen(s, p + 1, AlphaSpaceChars) >= 1
  /\ p + 1 + RunLen(s, p + 1, AlphaSpaceChars) <= Len(s)
  /\ s[p + 1 + RunLen(s, p + 1, AlphaSpaceChars)] \in QuoteChars

QuotedName(s, p) == SubSeq(s, p + 1, p + RunLen(s, p + 1, AlphaSpaceChars))

\* the positions where a name is quoted that is not an excluded one
NamePositions(s) ==
  {p \in DOMAIN s : /\ QuotedNameAt(s, p)
                    /\ \A g \in 2..Len(GENERIC_FONTS) : QuotedName(s, p) # GENERIC_FONTS[g]}

\* where name is quoted first
FirstQuoted(s, name) == MinOf({p \in NamePositions(s) : QuotedName(s, p) = name})

\* C18: the fonts are the distinct quoted names of the fontFamily block, each
\* once, in the order of their first occurrence, without the names equal to a
\* reference generic font other than Inter, the first of the list
C18_FontsAreQuotedNames ==
  TailwindScanned =>
    LET names == {QuotedName(FontFamilyBlock, p) : p \in NamePositions(FontFamilyBlock)}
    IN /\ {tailwind.fonts[k] : k \in DOMAIN tailwind.fonts} = names
       /\ \A i, j \in DOMAIN tailwind.fonts :
            i < j => FirstQuoted(FontFamilyBlock, tailwind.fonts[i])
                       < FirstQuoted(FontFamilyBlock, tailwind.fonts[j])
       /\ \A k \in DOMAIN tailwind.fonts :
            tailwind.fonts[k] \notin {<<"R","o","b","o","t","o">>, <<"A","r","i","a","l">>, <<"S","e","g","o","e"," ","U","I">>, <<"H","e","l","v","e","t","i","c","a"," ","N","e","u","e">>,
                                      <<"S","F"," ","P","r","o">>}
       /\ (\E p \in DOMAIN FontFamilyBlock :
             QuotedNameAt(FontFamilyBlock, p) /\ QuotedName(FontFamilyBlock, p) = <<"I","n","t","e","r">>)
          => arrayIncludes(tailwind.fonts, <<"I","n","t","e","r">>)

\* a block with Inter twice, Roboto and SF Pro: Inter, Playfair Display and
\* Roboto Slab are returned
C18_Witness ==
  /\ TailwindScanned
  /\ tailwind.fonts = << <<"I","n","t","e","r">>, <<"P","l","a","y","f","a","i","r"," ","D","i","s","p","l","a","y">>, <<"R","o","b","o","t","o"," ","S","l","a","b">> >>
  /\ includes(FontFamilyBlock, <<"'","R","o","b","o","t","o","'">>)
  /\ includes(FontFamilyBlock, <<"'","S","F"," ","P","r","o","'">>)

\* the braces open after position j of s, counted from position b
DepthFrom(s, b, j) ==
  Cardinality({k \in b..j : s[k] = "{"}) - Cardinality({k \in b..j : s[k] = "}"})

\* "colors:" is followed by a brace that is never closed
NeverClosed(text) ==
  /\ HasBraceStart(text)
  /\ \A j \in BraceStart(text)..Len(AfterColors(text)) :
       DepthFrom(AfterColors(text), BraceStart(text), j) # 0

\* C19: the brace loop of scanTailwindConfig always comes to its end; when the
\* brace after "colors:" is never closed the colors block counts as not found
\* and the colors are empty
C19_BraceScanTerminates ==
  /\ (loop.phase = "loop") ~> (loop.phase \in {"after", "returned"})
  /\ [](TailwindScanned /\ NeverClosed(config) =>
          loop.colorBlock = <<>> /\ tailwind.colors = <<>>)

\* an unclosed block with a color entry in it: the loop ran off the end
C19_Witness ==
  /\ TailwindScanned
  /\ NeverClosed(config)
  /\ includes(config, <<"a",":","#","f","f","f",",">>)
  /\ loop.i > Len(AfterColors(config))
  /\ tailwind.colors = <<>>

\* ------------------------------------------------------------------------
\* Properties of one design-system generation
\* ------------------------------------------------------------------------

Generating == op \in {"generateDesignSystem", "handleGenerate"}

IsPrefix(s, t) == Len(s) <= Len(t) /\ SubSeq(t, 1, Len(s)) = s

TimesIn(s, x) == Cardinality({i \in DOMAIN s : s[i] = x})

\* some part of the text is the text of a JSON object
HoldsJsonObject(text) ==
  \E i \in DOMAIN text : \E j \in i..Len(text) :
    \E k \in DOMAIN JsonObjects : JsonObjects[k][1] = SubSeq(text, i, j)

\* the last fetch failed: the network, a status outside 200..299, or a body
\* that holds no JSON object
CallFailed ==
  \/ http.state = "failed"
  \/ /\ http.state = "responded"
     /\ \/ http.status \notin 200..299
        \/ ~http.json
        \/ ~HoldsJsonObject(http.text)

\* the one error of a failed generation: generateDesignSystem rejects,
\* handleGenerate resolves with { success: false, error }
SurfacesAsOneError ==
  /\ Len(gen.errors) = 1
  /\ gen.result.error = gen.errors[1]
  /\ ~gen.result.success
  /\ gen.result.state = IF op = "generateDesignSystem" THEN "rejected" ELSE "resolved"

\* C20: during one generation the model client is called in the order
\* analyzeBrand, generatePalette, generateTypography, calculateUniquenessScore,
\* each at most once and with at most one HTTP request; after a failed call
\* (network, status, unparseable response) no model call and no request
\* follows, and the failure is the one error of the generation
C20_CallsInOrderFailureEndsGeneration ==
  /\ [](Generating =>
          /\ IsPrefix(gen.calls, ModelCalls)
          /\ \A i \in DOMAIN ModelCalls :
               TimesIn(gen.requests, ModelCalls[i]) <= TimesIn(gen.calls, ModelCalls[i])
          /\ Len(gen.errors) <= 1
          /\ (gen.errors # <<>> => SurfacesAsOneError)
          /\ (CallFailed => SurfacesAsOneError))
  /\ [][gen.errors # <<>> =>
          /\ gen'.calls = gen.calls
          /\ gen'.requests = gen.requests
          /\ gen'.errors = gen.errors
          /\ gen'.result = gen.result]_vars

\* handleGenerate fails in its third model call on an answer without JSON
C20_Witness ==
  /\ op = "handleGenerate"
  /\ gen.calls = SubSeq(ModelCalls, 1, 3)
  /\ gen.requests = gen.calls
  /\ http.state = "responded" /\ http.status = 200 /\ http.json
  /\ http.text # <<>> /\ ~HoldsJsonObject(http.text)
  /\ gen.result = [state |-> "resolved", success |-> FALSE,
                   error |-> "Failed to parse JSON from response"]
  /\ gen.step = "done"

\* generateDesignSystem completes after its four model calls
GenerationCompleted ==
  /\ op = "generateDesignSystem"
  /\ gen.calls = ModelCalls /\ gen.requests = ModelCalls
  /\ gen.result.state = "resolved" /\ gen.result.success

\* ------------------------------------------------------------------------
\* Properties of the premium API
\* ------------------------------------------------------------------------

KnownPrefixes ==
  << <<<<"n","u","i","_","a","g","e","n","c","y","_">>, "agency">>, <<<<"n","u","i","_","t","e","a","m","_">>, "team">>,
     <<<<"n","u","i","_","i","n","d","i","e","_">>, "indie">>, <<<<"n","u","i","_","f","r","e","e","_">>, "free">> >>

BeginsWith(key, prefix) ==
  Len(key) >= Len(prefix) /\ SubSeq(key, 1, Len(prefix)) = prefix

KeyValidated == op = "validateApiKey"

\* C21: validateApiKey reports valid exactly for the keys of at least 20
\* characters that begin with nui_agency_, nui_team_, nui_indie_ or nui_free_;
\* a valid result names the tier of the prefix; an invalid result carries an
\* error and no tier
C21_ValidIffLongWithKnownPrefix ==
  KeyValidated =>
    /\ validation.valid <=>
         /\ Len(apiKey) >= 20
         /\ \E i \in DOMAIN KnownPrefixes : BeginsWith(apiKey, KnownPrefixes[i][1])
    /\ validation.valid =>
         /\ \E i \in DOMAIN KnownPrefixes :
              /\ BeginsWith(apiKey, KnownPrefixes[i][1])
              /\ validation.tier = KnownPrefixes[i][2]
         /\ validation.error = Absent
    /\ ~validation.valid => validation.error # Absent /\ validation.tier = Absent

\* a key of 19 characters with a known prefix is invalid
C21_Witness ==
  /\ KeyValidated
  /\ Len(apiKey) = 19
  /\ BeginsWith(apiKey, <<"n","u","i","_","t","e","a","m","_">>)
  /\ ~validation.valid /\ validation.error = "Invalid API key format"

ValidKeyReached ==
  /\ KeyValidated /\ Len(apiKey) = 20 /\ validation = [valid |-> TRUE, tier |-> "indie", error |-> Absent]

ExpectedRemaining == [free |-> 5, indie |-> 50, team |-> 200, agency |-> 999]

RateLimitChecked == rateLimit.tier # Absent

\* C24: checkRateLimit allows every user of every tier, however many requests
\* were answered before, with remaining the daily maximum of the tier (999 for
\* agency); the handler of createHandler never answers 429
C24_RateLimitAlwaysAllows ==
  /\ RateLimitChecked =>
       /\ rateLimit.allowed
       /\ rateLimit.remaining = ExpectedRemaining[rateLimit.tier]
  /\ handler.status # 429

\* a request after an answered one passes the rate limit of the agency tier
C24_Witness ==
  /\ served >= 1
  /\ handler.step = "handleGenerate"
  /\ rateLimit = [userId |-> "user-id", tier |-> "agency", allowed |-> TRUE, remaining |-> 999]

\* the tier named by the prefix of a valid key
TierNamedBy(key) ==
  KnownPrefixes[CHOOSE i \in DOMAIN KnownPrefixes : BeginsWith(key, KnownPrefixes[i][1])][2]

BodyTier == IF ObjHas(req.body, <<"t","i","e","r">>) THEN ObjGet(req.body, <<"t","i","e","r">>) ELSE Absent

\* C28: in the handler of createHandler the tier of the generation is the one
\* named by the prefix of the API key, whatever tier the body claims; visuals
\* are answered only to indie, team and agency keys, Figma exports only to
\* team and agency keys, so never to a nui_free_ key
C28_TierFromKeyOnly ==
  /\ handler.step = "handleGenerate" /\ gen.step # "idle" => gen.tier = TierNamedBy(apiKey)
  /\ handler.visuals => TierNamedBy(apiKey) \in {"indie", "team", "agency"}
  /\ handler.figma => TierNamedBy(apiKey) \in {"team", "agency"}
  /\ gen.visuals => TierNamedBy(apiKey) \in {"indie", "team", "agency"}
  /\ gen.figma => TierNamedBy(apiKey) \in {"team", "agency"}

\* a nui_free_ key with a body that claims the agency tier is answered 200
\* without visuals and without Figma exports
C28_Witness ==
  /\ BeginsWith(apiKey, <<"n","u","i","_","f","r","e","e","_">>)
  /\ BodyTier = "agency"
  /\ handler.step = "answered" /\ handler.status = 200
  /\ ~handler.visuals /\ ~handler.figma

\* a nui_team_ key with a body that claims the free tier gets both
PremiumAnswered ==
  /\ BeginsWith(apiKey, <<"n","u","i","_","t","e","a","m","_">>)
  /\ BodyTier = "free"
  /\ handler.status = 200 /\ handler.visuals /\ handler.figma

\* ------------------------------------------------------------------------
\* Properties of repeated colors in the token scanner
\* ------------------------------------------------------------------------

\* the positions of text where a hex literal starts
HexPositions(text) == {p \in DOMAIN text : text[p] = "#" /\ HexRunAfter(text, p) >= 3}

\* the hex literal at position p of text, in lower case
HexColorAt(text, p) == toLowerCase(SubSeq(text, p, p + Min(HexRunAfter(text, p), 8)))

\* the hex colors of text
HexColors(text) == {HexColorAt(text, p) : p \in HexPositions(text)}

\* the occurrences of hex colors in the values of the custom-property
\* declarations of text, as <<declaration, position in its value, color>>
DeclaredUses(text) ==
  LET decls == Declarations(text)
  IN UNION {{<<d, p, HexColorAt(decls[d].value, p)>> : p \in HexPositions(decls[d].value)} :
              d \in DOMAIN decls}

\* the occurrences of the color h among uses
UsesOf(uses, h) == {u \in uses : u[3] = h}

\* the declarations in which the color h occurs
DeclarationsWith(uses, h) == {u[1] : u \in UsesOf(uses, h)}

\* the generic-color issues that report the color h
GenericColorIssuesOf(h) ==
  {k \in IssuesOfType(analysis.issues, "generic-color") : analysis.issues[k].value = h}

\* the colors of the declarations come first
DeclaredColorsFirst(declared) ==
  \A k \in DOMAIN scan.colors :
    \A m \in (k + 1)..Len(scan.colors) :
      scan.colors[m] \in declared => scan.colors[k] \in declared

\* C22: a hex color with k >= 1 occurrences in the values of custom-property
\* declarations is k times among the colors of scanCSS, whatever its inline
\* uses; a hex color used only outside declarations is there once; a generic
\* color used only inline has one generic-color issue
C22_DeclaredOccurrencesKept ==
  Scanned =>
    LET uses == DeclaredUses(css)
        declared == {u[3] : u \in uses}
        colors == HexColors(css)
    IN /\ \A h \in colors :
            TimesIn(scan.colors, h) =
              IF h \in declared THEN Cardinality(UsesOf(uses, h)) ELSE 1
       /\ DeclaredColorsFirst(declared)
       /\ Analyzed =>
            \A h \in (colors \cap GenericColorSet) \ declared :
              Cardinality(GenericColorIssuesOf(h)) = 1

\* C22 as stated: a hex color is among the colors as many times as there are
\* custom-property declarations in which it occurs, once when there is none
C22_OncePerDeclaration ==
  Scanned =>
    LET uses == DeclaredUses(css)
        declared == {u[3] : u \in uses}
    IN \A h \in HexColors(css) :
         TimesIn(scan.colors, h) =
           IF h \in declared THEN Cardinality(DeclarationsWith(uses, h)) ELSE 1

\* #3b82f6 is declared in two declarations and used inline, and is twice among
\* the colors
C22_Witness ==
  /\ Scanned
  /\ Cardinality(UsesOf(DeclaredUses(css), <<"#","3","b","8","2","f","6">>)) = 2
  /\ Cardinality(DeclarationsWith(DeclaredUses(css), <<"#","3","b","8","2","f","6">>)) = 2
  /\ includes(css, <<"a","{","c","o","l","o","r",":","#","3","B","8","2","F","6","}">>)
  /\ TimesIn(scan.colors, <<"#","3","b","8","2","f","6">>) = 2

\* a generic color used twice inline and never declared has one issue
InlineTwiceOneIssue ==
  /\ Analyzed
  /\ UsesOf(DeclaredUses(css), <<"#","3","b","8","2","f","6">>) = {}
  /\ Cardinality({p \in HexPositions(css) : HexColorAt(css, p) = <<"#","3","b","8","2","f","6">>}) = 2
  /\ Cardinality(GenericColorIssuesOf(<<"#","3","b","8","2","f","6">>)) = 1

\* ------------------------------------------------------------------------
\* Properties of projects without stylesheets
\* ------------------------------------------------------------------------

\* the name ends in .css or .scss
NamedStylesheet(name) ==
  \/ Len(name) >= 4 /\ SubSeq(name, Len(name) - 3, Len(name)) = <<".","c","s","s">>
  \/ Len(name) >= 5 /\ SubSeq(name, Len(name) - 4, Len(name)) = <<".","s","c","s","s">>

NoStylesheet == \A k \in DOMAIN files : ~NamedStylesheet(files[k][1])

\* C23: for files without a .css or .scss file analyzeProject returns the
\* score 50, no issues and the regenerate recommendation alone, whatever the
\* Tailwind configurations hold
C23_NoStylesheetScores50 ==
  Reported /\ NoStylesheet =>
    /\ report.currentScore = 50
    /\ report.issues = <<>>
    /\ report.recommendations = <<RegenerateText>>

\* a Tailwind configuration with a reference generic color and a text file:
\* the color is among the extracted tokens, the score is 50
C23_Witness ==
  /\ Reported /\ NoStylesheet
  /\ Len(files) = 2
  /\ \E k \in DOMAIN files : includes(files[k][2], <<"'","#","3","B","8","2","F","6","'">>) /\ IsTailwindFile(files[k][1])
  /\ ObjHas(report.extractedTokens.colors, <<"b","l","u","e">>)
  /\ report.currentScore = 50
  /\ report.recommendations = <<RegenerateText>>

\* ------------------------------------------------------------------------
\* Properties of preserved colors in generateUpgrade
\* ------------------------------------------------------------------------

\* the color mappings generateUpgrade gives for the same report when no color
\* is preserved
UnpreservedColorMappings ==
  generateMigration([colors |-> report.extractedTokens.colors, fonts |-> current.fonts],
                    UpgradeTarget).colorMappings

\* C25: in generateUpgrade every source color mapped with preserved colors has
\* the target value it has when nothing is preserved
C25_PreserveKeepsOtherTargets ==
  Upgraded /\ options.hasPreserveColors =>
    LET unpreserved == UnpreservedColorMappings
    IN \A k \in DOMAIN migration.colorMappings :
         LET from == migration.colorMappings[k][1]
         IN ObjHas(unpreserved, from) =>
              ObjGet(unpreserved, from) = migration.colorMappings[k][2]

\* a preserved color that is mapped to nothing leaves the other mappings alone
\* when it is the last of the colors
PreservedLastKeepsTargets ==
  /\ Upgraded /\ options.preserveColors = <<<<"#","2","d","5","a","4","a">>>>
  /\ Len(report.extractedTokens.colors) = 2
  /\ report.extractedTokens.colors[2][2] = <<"#","2","d","5","a","4","a">>
  /\ migration.colorMappings = UnpreservedColorMappings
  /\ migration.colorMappings # <<>>

\* ------------------------------------------------------------------------
\* Properties of repeated colors in generateMigration
\* ------------------------------------------------------------------------

DistinctColorsAgree ==
  /\ Returned
  /\ Len(migration.cssReplacements) = 2
  /\ Len(migration.colorMappings) = 2
  /\ \A k \in DOMAIN migration.cssReplacements :
       ObjGet(migration.colorMappings, migration.cssReplacements[k].from)
         = migration.cssReplacements[k].to

\* ------------------------------------------------------------------------
\* Properties of the synthesized keys of analyzeProject
\* ------------------------------------------------------------------------

\* the keys the forEach of one stylesheet writes, in order, starting from the
\* mapping all
RECURSIVE FoldKeys(_, _, _)
FoldKeys(all, colors, k) ==
  IF k > Len(colors) THEN <<>>
  ELSE <<SyntheticKey(Len(ObjKeys(all)) + 1)>> \o FoldKeys(FoldColors(all, <<colors[k]>>, 1), colors, k + 1)

\* the keys written for the colors of the .css and .scss files of fs, from
\* file k on, when the mapping is all before file k
RECURSIVE StylesheetKeys(_, _, _)
StylesheetKeys(fs, k, all) ==
  IF k > Len(fs) THEN <<>>
  ELSE IF IsCssFile(fs[k][1])
       THEN LET colors == scanCSS(fs[k][2]).colors
            IN FoldKeys(all, colors, 1) \o StylesheetKeys(fs, k + 1, FoldColors(all, colors, 1))
       ELSE IF IsTailwindFile(fs[k][1])
            THEN StylesheetKeys(fs, k + 1, ObjAssign(all, scanTailwindConfig(fs[k][2]).colors))
            ELSE StylesheetKeys(fs, k + 1, all)

\* C27: after analyzeProject no two colors folded from .css and .scss files
\* were stored under the same key: the stylesheets wrote as many entries as
\* they have colors, also when a Tailwind configuration comes first
C27_StylesheetKeysDistinct ==
  Reported =>
    LET keys == StylesheetKeys(files, 1, <<>>)
    IN /\ Len(keys) = Len(StylesheetColors(files, 1))
       /\ \A i, j \in DOMAIN keys : i # j => keys[i] # keys[j]

\* a Tailwind configuration came before a stylesheet with several colors and
\* every color of the stylesheet has its own key
TailwindFirstKeysDistinct ==
  /\ Reported
  /\ Len(files) = 2
  /\ IsTailwindFile(files[1][1])
  /\ scanTailwindConfig(files[1][2]).colors # <<>>
  /\ LET keys == StylesheetKeys(files, 1, <<>>)
     IN /\ Len(keys) >= 2
        /\ \A i, j \in DOMAIN keys : i # j => keys[i] # keys[j]
        /\ \A i \in DOMAIN keys : ObjHas(report.extractedTokens.colors, keys[i])

\* ------------------------------------------------------------------------
\* Properties of the MCP server loop
\* ------------------------------------------------------------------------

\* every call of the listener has finished its lines and no input is left
AllLinesHandled ==
  /\ mcp.state # "idle"
  /\ stdin = <<>>
  /\ \A h \in DOMAIN listeners : listeners[h].state = "done"

\* C29: the responses are written in the order in which their request lines
\* arrived, also when a later chunk arrives while a tool call waits
C29_ResponsesInRequestOrder ==
  \A i, j \in DOMAIN stdout : i < j => stdout[i].line < stdout[j].line

\* two chunks were answered in order: the listener of the first one had
\* finished before the second one arrived
TwoChunksAnsweredInOrder ==
  /\ AllLinesHandled
  /\ Len(listeners) = 2
  /\ Len(stdout) = 2
  /\ stdout[1].line = 1
  /\ stdout[2].line = 2

\* the responses written for the line of this number
AnswersTo(number) == {k \in DOMAIN stdout : stdout[k].line = number}

\* C30: once every line is handled, each line that parses as a request has
\* exactly one response, which carries the id of the request, and the
\* response with code -32700 is written only for lines that do not parse
C30_OneResponseWithOwnId ==
  AllLinesHandled =>
    \A number \in DOMAIN mcp.received :
      LET parsed == JSONparse(mcp.received[number])
      IN /\ parsed.ok =>
              /\ Cardinality(AnswersTo(number)) = 1
              /\ \A k \in AnswersTo(number) : stdout[k].response.id = parsed.value.id
         /\ (\E k \in AnswersTo(number) : stdout[k].response.code = ParseErrorCode)
              => ~parsed.ok

\* an unknown method and a line that is no JSON were both answered as the
\* protocol asks
UnknownMethodAndGarbageAnswered ==
  /\ AllLinesHandled
  /\ \E k \in DOMAIN stdout :
       /\ stdout[k].response.code = MethodNotFoundCode
       /\ stdout[k].response.id = JSONparse(mcp.received[stdout[k].line]).value.id
  /\ \E k \in DOMAIN stdout :
       /\ stdout[k].response.code = ParseErrorCode
       /\ ~JSONparse(mcp.received[stdout[k].line]).ok

====
